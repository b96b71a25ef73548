------------------------ MODULE SharedBindings_proofs ------------------------
(***************************************************************************)
(* Proofs about SharedBindings: any number of processes, windows, keys,     *)
(* tokens, reloads and failures.                                            *)
(*                                                                         *)
(* What holds of the state file always holds whoever is killed in the       *)
(* middle of a change (FileOK, NoOrphan, RegisteredOK).  Beside it the      *)
(* invariant says what the one process that holds the lock knows at each    *)
(* place (HolderOK): the lease it works on covers the wrappers that are in  *)
(* the key tables, and while keys are bound or restored no process is       *)
(* registered that could be cut off.                                        *)
(***************************************************************************)
EXTENDS SharedBindings, TLAPS

-----------------------------------------------------------------------------
(* The invariant *)

Working == Labels \ {"off", "up", "closed"}
Binding == {"set", "undo", "drop"}
Joining == {"join", "joined"}
Bound == Binding \cup Joining \cup {"control"}

\* The bindings that the wrappers of a lease replay are those it would restore.
Carried(st) == \A k \in Keys : key[k].tok = st.token => key[k].val = st.backup[k]
Dated(st) == \A k \in Keys : st.backup[k] \in 0 .. reloads

\* Every wrapper in the key tables is one of the given keys of this lease.
Covers(st, S) ==
    \A k \in Keys \ lost : key[k].tok # None => key[k].tok = st.token /\ k \in S

\* The given keys are bound, but for those the user has rebound since.
BoundOrNewer(st, S) ==
    \A k \in S : key[k].tok = st.token \/ key[k].val > st.backup[k]

\* A lease of an older version manages F8 and F9 alone, and has bound no other key.
FileOK == file # None =>
    /\ Carried(file) /\ Dated(file)
    /\ file.old => file.managed = {} /\ \A k \in Optional : key[k].tok # file.token

RegisteredOK ==
    \A p \in Registered :
        /\ file # None /\ ~file.old /\ file.phase = "active"
        /\ p \in file.owners
        /\ BoundOrNewer(file, Core)

\* The file is the lease of st, which manages no key that the file does not.
Rooted(st) ==
    /\ file # None /\ ~file.old
    /\ file.token = st.token /\ file.backup = st.backup
    /\ st.managed \subseteq file.managed

\* What the process that holds the lock knows.
HolderOK(p, a) == a.at \in Working =>
    /\ a.at # "prepare" => a.st \in Lease /\ Carried(a.st) /\ Dated(a.st)
    /\ a.at \notin {"prepare", "restore"} => Covers(a.st, Managed(a.st))
    /\ a.at = "prepare" => \A k \in Keys \ lost : key[k].tok = None
    /\ a.at = "restore" => Covers(a.st, a.todo) /\ a.then # "none"
    /\ a.at \in {"upgrade", "decide"} =>
         /\ a.st = file /\ (file.old <=> a.at = "upgrade") /\ a.todo = {}
         /\ Registered \subseteq a.live
    /\ a.at \in Bound => Rooted(a.st) /\ ~a.st.old /\ BoundOrNewer(a.st, Core \ a.todo)
    /\ a.at \in Binding => a.todo \subseteq Managed(a.st) /\ (a.fresh => p \in a.st.owners)
    /\ a.at \in {"prepare", "restore", "control"} \cup Binding => Registered = {}
    /\ a.at \in Joining =>
         a.todo = {} /\ a.st.phase = "active" /\ Registered \subseteq a.st.owners
    /\ a.at = "joined" => opt[WindowOf[p]] = p
    /\ a.at = "control" => a.todo = {} /\ a.st = file /\ file.phase = "active" /\ p \in file.owners
    /\ a.at = "leave" => /\ file # None /\ Registered \subseteq a.st.owners
                         /\ a.st = [file EXCEPT !.owners = a.st.owners]

ProcessOK(p) ==
    /\ lock = p <=> proc[p].at \in Working
    /\ proc[p].at = "off" => ~proc[p].reg
    /\ proc[p].at \in {"off", "up", "closed"} => proc[p].todo = {}
    /\ proc[p].at # "off" => pane[p] = "live"
    /\ HolderOK(p, proc[p])

DataOK ==
    /\ lost \in SUBSET Keys
    /\ key \in [Keys -> [tok : Tokens \cup {None}, val : Users]]
    /\ file \in Lease \cup {None}
    /\ opt \in [Windows -> Railmuxes \cup {None}]
    /\ want \in [Keys -> Users]
    /\ reloads \in 0..MaxReloads /\ faults \in 0..MaxFaults
    /\ \A k \in Keys : key[k].val \in 0 .. reloads
    /\ NoOrphan /\ FileOK

LeaseInv ==
    /\ DataOK
    /\ lock \in Railmuxes \cup {None}
    /\ pane \in [Railmuxes -> {"unborn", "live", "dead"}]
    /\ proc \in [Railmuxes -> ProcType]
    /\ RegisteredOK
    /\ \A p \in Railmuxes : ProcessOK(p)

\* When no configuration is loaded inside a transaction, what the wrapper of a key that
\* is about to be bound will replay is what the key may do.
Current ==
    /\ NewestAuthority
    /\ \A p \in Railmuxes : proc[p].at \in Binding =>
         \A k \in proc[p].todo : Authorized(k, proc[p].st.backup[k])

\* In a window of its own a registered process is the controller.
Controls == \A p \in Registered : opt[WindowOf[p]] = p

-----------------------------------------------------------------------------
(* A step of one process *)

Stepped(p, b) ==
    /\ proc' \in [Railmuxes -> ProcType]
    /\ proc'[p] = b
    /\ \A q \in Railmuxes \ {p} : proc'[q] = proc[q]

LEMMA NameFacts ==
    /\ None \notin Railmuxes /\ None \notin Tokens /\ None \notin Lease
    /\ \A k \in Core : k \notin Optional
    /\ Core \subseteq Keys /\ Optional \subseteq Keys
    /\ MaxReloads \in Nat /\ MaxFaults \in Nat
    /\ \A n \in 0 .. MaxReloads : n \in Users
    /\ Unbound \in Users /\ Unbound = 0
BY NoneAssumption, KeysAssumption, LimitsAssumption DEF Keys, Users, Unbound

LEMMA InvFacts ==
    ASSUME LeaseInv
    PROVE  /\ DataOK
           /\ lock \in Railmuxes \cup {None}
           /\ pane \in [Railmuxes -> {"unborn", "live", "dead"}]
           /\ proc \in [Railmuxes -> ProcType]
           /\ RegisteredOK
           /\ \A p \in Railmuxes : ProcessOK(p) /\ proc[p] \in ProcType
BY DEF LeaseInv

\* A step registers nobody but its process, and that only at its end.
LEMMA RegisteredStep ==
    ASSUME LeaseInv, NEW p \in Railmuxes, NEW b \in ProcType, Stepped(p, b)
    PROVE  /\ Registered' \subseteq Registered \cup {p}
           /\ ~(b.at = "up" /\ b.reg) => Registered' \subseteq Registered
           /\ ~(b.at = "up" /\ b.reg) => p \notin Registered'
BY DEF Registered, At, Stepped

LEMMA RegisteredStays ==
    ASSUME LeaseInv, NEW p \in Railmuxes, NEW b \in ProcType, Stepped(p, b),
           ~(b.at = "up" /\ b.reg),
           UNCHANGED <<key, file>> \/ Registered = {}
    PROVE  RegisteredOK'
<1>1. CASE Registered = {}
  <2>1. Registered' = {} BY <1>1, RegisteredStep
  <2>2. QED BY <2>1 DEF RegisteredOK
<1>2. CASE UNCHANGED <<key, file>>
  BY <1>2, RegisteredStep, InvFacts DEF RegisteredOK, BoundOrNewer
<1>3. QED BY <1>1, <1>2

\* One process at a time works on the lease; a step of its is all that changes.
LEMMA HolderStep ==
    ASSUME LeaseInv, NEW p \in Railmuxes, NEW b \in ProcType, Stepped(p, b),
           lock \in {None, p}, lock' = IF b.at \in Working THEN p ELSE None,
           pane' = pane, proc[p].at # "off", b.at # "off",
           b.at \in {"up", "closed"} => b.todo = {},
           DataOK', RegisteredOK', HolderOK(p, b)'
    PROVE  LeaseInv'
<1>1. ProcessOK(p)'
  BY InvFacts, NameFacts DEF ProcessOK, Stepped
<1>2. ASSUME NEW q \in Railmuxes, q # p PROVE ProcessOK(q)'
  <2>1. proc'[q] = proc[q] BY <1>2 DEF Stepped
  <2>2. lock # q BY <1>2, NameFacts
  <2>3. lock' # q BY <1>2, NameFacts
  <2>4. ProcessOK(q) BY InvFacts
  <2>5. proc[q].at \notin Working BY <2>2, <2>4 DEF ProcessOK
  <2>6. HolderOK(q, proc[q])' BY <2>1, <2>5 DEF HolderOK
  <2>7. QED BY <2>1, <2>3, <2>4, <2>5, <2>6 DEF ProcessOK
<1>3. lock' \in Railmuxes \cup {None} /\ pane' \in [Railmuxes -> {"unborn", "live", "dead"}]
  BY InvFacts
<1>4. QED BY <1>1, <1>2, <1>3 DEF LeaseInv, Stepped

LEMMA NoneType == NoProcess \in ProcType /\ NoProcess.todo = {}
BY DEF NoProcess, ProcType, Labels

\* The lock is given up without a registration.
Idle(l, r) == [NoProcess EXCEPT !.at = l, !.reg = r]

LEMMA OverStep ==
    ASSUME LeaseInv, NEW p \in Railmuxes, NEW l \in {"up", "closed"}, NEW r \in BOOLEAN,
           Over(p, l, r)
    PROVE  /\ Idle(l, r) \in ProcType /\ Stepped(p, Idle(l, r))
           /\ Idle(l, r).at = l /\ Idle(l, r).reg = r /\ Idle(l, r).todo = {}
           /\ lock' = None
<1>1. PICK n : n = NoProcess OBVIOUS
<1>2. n \in ProcType /\ n.todo = {} BY <1>1, Zenon, NoneType
<1>5. PICK b : b = [n EXCEPT !.at = l, !.reg = r] OBVIOUS
<1>6. b \in ProcType /\ b.at = l /\ b.reg = r /\ b.todo = {}
  BY <1>2, <1>5 DEF ProcType, Labels
<1>7. b = Idle(l, r) BY <1>1, <1>5 DEF Idle
<1>3. proc' = [proc EXCEPT ![p] = b] /\ lock' = None BY <1>7 DEF Over, Idle
<1>4. QED BY <1>3, <1>6, <1>7, InvFacts DEF Stepped

LEMMA OverInv ==
    ASSUME LeaseInv, NEW p \in Railmuxes, NEW l \in {"up", "closed"}, Over(p, l, FALSE),
           lock = p, pane' = pane, DataOK', UNCHANGED <<key, file>> \/ Registered = {} \/ RegisteredOK'
    PROVE  LeaseInv'
<1>1. PICK b : b = Idle(l, FALSE) OBVIOUS
<1>2. /\ b \in ProcType /\ Stepped(p, b) /\ b.at = l /\ b.reg = FALSE /\ b.todo = {}
      /\ lock' = None
  BY <1>1, OverStep
<1>3. b.at \notin Working /\ b.at # "off" BY <1>2 DEF Working
<1>4. RegisteredOK' BY <1>2, RegisteredStays
<1>5. HolderOK(p, b)' BY <1>3 DEF HolderOK
<1>6. proc[p].at # "off" BY InvFacts DEF ProcessOK, Working
<1>7. QED BY <1>2, <1>3, <1>4, <1>5, <1>6, HolderStep

-----------------------------------------------------------------------------
(* What the steps have in common *)

Options == [Windows -> Railmuxes \cup {None}]

LEMMA OptionFacts ==
    ASSUME NEW p \in Railmuxes
    PROVE  /\ \A o \in Options : Unset(o, p) \in Options /\ [o EXCEPT ![WindowOf[p]] = p] \in Options
           /\ \A o \in Options : \A S \in SUBSET Railmuxes : HandedOver(o, S, p) \subseteq Options
           /\ opt \in Options => \A st \in Lease : \A S : PrunedOptions(st, S) \in Options
<1>1. WindowOf[p] \in Windows BY DEF Windows
<1>2. ASSUME NEW o \in Options PROVE Unset(o, p) \in Options /\ [o EXCEPT ![WindowOf[p]] = p] \in Options
  BY <1>1, <1>2 DEF Options, Unset
<1>3. ASSUME NEW o \in Options, NEW S \in SUBSET Railmuxes PROVE HandedOver(o, S, p) \subseteq Options
  BY <1>1, <1>3 DEF Options, HandedOver
<1>4. ASSUME opt \in Options, NEW st \in Lease, NEW S PROVE PrunedOptions(st, S) \in Options
  BY <1>4 DEF Options, PrunedOptions
<1>5. QED BY <1>2, <1>3, <1>4

LEMMA CommonFacts ==
    ASSUME LeaseInv
    PROVE  /\ opt \in Options
           /\ Fault => faults' \in 0 .. MaxFaults
           /\ NoFault => faults' \in 0 .. MaxFaults
           /\ faults \in 0 .. MaxFaults
BY InvFacts, NameFacts DEF DataOK, Options, Fault, NoFault

LEMMA DataSame ==
    ASSUME LeaseInv, UNCHANGED <<lost, key, file, want, reloads>>,
           opt' \in Options, faults' \in 0 .. MaxFaults
    PROVE  DataOK'
BY InvFacts DEF DataOK, NoOrphan, FileOK, Carried, Dated, Managed, Options

\* The file is replaced by a lease that covers the wrappers.
LEMMA DataSaved ==
    ASSUME LeaseInv, UNCHANGED <<lost, key, want, reloads>>, opt' \in Options,
           faults' \in 0 .. MaxFaults,
           file' \in Lease, ~file'.old, Carried(file'), Dated(file'), Covers(file', Managed(file'))
    PROVE  DataOK'
<1>1. file' # None BY NameFacts
<1>2. NoOrphan' BY <1>1 DEF NoOrphan, Covers, Managed
<1>3. FileOK' BY <1>1 DEF FileOK, Carried, Dated
<1>4. QED BY <1>2, <1>3, InvFacts DEF DataOK, Options

LEMMA HolderFacts ==
    ASSUME LeaseInv, NEW p \in Railmuxes, proc[p].at \in Working
    PROVE  lock = p /\ pane[p] = "live" /\ HolderOK(p, proc[p]) /\ proc[p].at # "off"
BY InvFacts DEF ProcessOK, Working

\* A registered process is an owner of the file and its pane lives.
LEMMA RegisteredFacts ==
    ASSUME LeaseInv
    PROVE  /\ Registered \subseteq Railmuxes
           /\ Registered \subseteq Live
           /\ Registered # {} => /\ file # None /\ ~file.old /\ file.phase = "active"
                                 /\ Registered \subseteq file.owners
<1>1. Registered \subseteq Live BY InvFacts DEF Registered, Live, ProcessOK
<1>2. QED BY <1>1, InvFacts DEF Registered, RegisteredOK

\* The step of a holder that keeps the lock, to a place where nobody is registered
\* or the file and the keys stay.
LEMMA GoOn ==
    ASSUME LeaseInv, NEW p \in Railmuxes, NEW b \in ProcType, Stepped(p, b),
           lock \in {None, p}, lock' = p, pane' = pane, proc[p].at # "off",
           b.at \in Working, DataOK', HolderOK(p, b)',
           UNCHANGED <<key, file>> \/ Registered = {}
    PROVE  LeaseInv'
<1>1. b.at \notin {"off", "up", "closed"} BY DEF Working
<1>2. RegisteredOK' BY <1>1, RegisteredStays
<1>3. QED BY <1>1, <1>2, HolderStep

LEMMA GotoWithStep ==
    ASSUME LeaseInv, NEW p \in Railmuxes, NEW l \in Labels, NEW st \in Lease \cup {None},
           GotoWith(p, l, st)
    PROVE  \E b \in ProcType :
              /\ Stepped(p, b) /\ b.at = l /\ b.st = st /\ b.todo = proc[p].todo
              /\ b.live = proc[p].live /\ (b.fresh => proc[p].fresh)
<1>1. PICK a : a = proc[p] OBVIOUS
<1>2. a \in ProcType BY <1>1, InvFacts
<1>3. PICK b : b = [a EXCEPT !.at = l, !.st = st] OBVIOUS
<1>4. /\ b \in ProcType /\ b.at = l /\ b.st = st /\ b.todo = a.todo
      /\ b.live = a.live /\ (b.fresh => a.fresh)
  BY <1>2, <1>3 DEF ProcType
<1>5. Stepped(p, b) BY <1>1, <1>3, <1>4, InvFacts DEF GotoWith, Stepped
<1>6. QED BY <1>1, <1>4, <1>5

LEMMA GotoStep ==
    ASSUME LeaseInv, NEW p \in Railmuxes, NEW l \in Labels, Goto(p, l)
    PROVE  \E b \in ProcType :
              /\ Stepped(p, b) /\ b.at = l /\ b.st = proc[p].st /\ b.todo = proc[p].todo
              /\ b.live = proc[p].live /\ (b.fresh => proc[p].fresh)
<1>1. PICK a : a = proc[p] OBVIOUS
<1>2. a \in ProcType BY <1>1, InvFacts
<1>3. PICK b : b = [a EXCEPT !.at = l] OBVIOUS
<1>4. /\ b \in ProcType /\ b.at = l /\ b.st = a.st /\ b.todo = a.todo
      /\ b.live = a.live /\ (b.fresh => a.fresh)
  BY <1>2, <1>3 DEF ProcType
<1>5. Stepped(p, b) BY <1>1, <1>3, <1>4, InvFacts DEF Goto, Stepped
<1>6. QED BY <1>1, <1>4, <1>5

LEMMA RestoreThenStep ==
    ASSUME LeaseInv, NEW p \in Railmuxes, NEW l \in {"prepare", "up", "closed"}, NEW st \in Lease,
           RestoreThen(p, st, l)
    PROVE  \E b \in ProcType :
              /\ Stepped(p, b) /\ b.at = "restore" /\ b.st = st /\ b.todo = Managed(st)
              /\ b.then = l
<1>1. PICK a : a = proc[p] OBVIOUS
<1>2. a \in ProcType BY <1>1, InvFacts
<1>3. Managed(st) \in SUBSET Keys BY NameFacts DEF Lease, Managed
<1>4. PICK b : b = [a EXCEPT !.at = "restore", !.st = st, !.todo = Managed(st), !.then = l]
  OBVIOUS
<1>5. /\ b \in ProcType /\ b.at = "restore" /\ b.st = st /\ b.todo = Managed(st) /\ b.then = l
  BY <1>2, <1>3, <1>4 DEF ProcType, Labels
<1>6. Stepped(p, b) BY <1>1, <1>4, <1>5, InvFacts DEF RestoreThen, Stepped
<1>7. QED BY <1>5, <1>6

\* A lease that covers the wrappers may be undone while nobody else is registered.
LEMMA RestoreThenInv ==
    ASSUME LeaseInv, NEW p \in Railmuxes, NEW l \in {"prepare", "up", "closed"}, NEW st \in Lease,
           RestoreThen(p, st, l), lock \in {None, p}, lock' = p, pane' = pane,
           proc[p].at # "off", Registered \subseteq {p},
           UNCHANGED <<lost, key, file, want, reloads>>, opt' \in Options,
           faults' \in 0 .. MaxFaults,
           Carried(st), Dated(st), Covers(st, Managed(st))
    PROVE  LeaseInv'
<1>1. PICK b \in ProcType : /\ Stepped(p, b) /\ b.at = "restore" /\ b.st = st
                            /\ b.todo = Managed(st) /\ b.then = l
  BY RestoreThenStep
<1>2. Registered' = {} BY <1>1, RegisteredStep
<1>3. DataOK' BY DataSame
<1>4. Covers(b.st, b.todo)' /\ Carried(b.st)' /\ Dated(b.st)'
  BY <1>1 DEF Covers, Carried, Dated
<1>5. HolderOK(p, b)' BY <1>1, <1>2, <1>4 DEF HolderOK, Bound, Binding, Joining
<1>6. b.at \in Working BY <1>1 DEF Working, Labels
<1>7. QED BY <1>1, <1>3, <1>5, <1>6, GoOn

-----------------------------------------------------------------------------
(* open *)

LEMMA OpenInv ==
    ASSUME LeaseInv, NEW p \in Railmuxes, Open(p) PROVE LeaseInv'
<1>1. PICK a : a = proc[p] OBVIOUS
<1>2. a \in ProcType /\ a.at = "up" BY <1>1, InvFacts DEF Open, At
<1>3. PICK l : l = IF file = None THEN "prepare" ELSE IF file.old THEN "upgrade" ELSE "decide"
  OBVIOUS
<1>4. PICK b : b = [a EXCEPT !.live = Live, !.st = file, !.at = l] OBVIOUS
<1>5. Live \in SUBSET Railmuxes /\ file \in Lease \cup {None} /\ l \in Working /\ l \in Labels
  BY <1>3, InvFacts DEF Live, DataOK, Working, Labels
<1>6. /\ b \in ProcType /\ b.live = Live /\ b.st = file /\ b.at = l /\ b.todo = a.todo
  BY <1>2, <1>4, <1>5 DEF ProcType
<1>7. Stepped(p, b) BY <1>1, <1>3, <1>4, <1>6, InvFacts DEF Open, Stepped
<1>8. DataOK' BY DataSame, CommonFacts DEF Open
<1>9. b.todo = {} BY <1>1, <1>2, <1>6, InvFacts DEF ProcessOK
<1>10. Registered' \subseteq Registered
  BY <1>5, <1>6, <1>7, RegisteredStep DEF Working
<1>11. HolderOK(p, b)'
  <2>1. CASE file = None
    <3>1. l = "prepare" BY <1>3, <2>1
    <3>2. Registered' = {} BY <2>1, <1>10, RegisteredFacts
    <3>3. \A k \in Keys \ lost : key[k].tok = None BY <2>1, InvFacts DEF DataOK, NoOrphan
    <3>4. QED BY <1>6, <3>1, <3>2, <3>3 DEF Open, HolderOK, Bound, Binding, Joining
  <2>2. CASE file # None
    <3>1. l \in {"upgrade", "decide"} /\ (file.old <=> l = "upgrade") BY <1>3, <2>2
    <3>2. Registered' \subseteq Live BY <1>10, RegisteredFacts
    <3>3. Covers(file, Managed(file)) BY <2>2, InvFacts DEF DataOK, NoOrphan, Covers
    <3>4. file \in Lease /\ Carried(file) /\ Dated(file) BY <2>2, InvFacts DEF DataOK, FileOK
    <3>5. Covers(b.st, Managed(b.st))' /\ Carried(b.st)' /\ Dated(b.st)'
      BY <1>6, <3>3, <3>4 DEF Open, Covers, Carried, Dated, Managed
    <3>6. QED BY <1>6, <1>9, <3>1, <3>2, <3>4, <3>5 DEF Open, HolderOK, Bound, Binding, Joining
  <2>3. QED BY <2>1, <2>2
<1>12. QED
  BY <1>1, <1>2, <1>5, <1>6, <1>7, <1>8, <1>11, GoOn DEF Open

\* What the process reads is a binding that is as old as the others.
LEMMA ReadFacts ==
    ASSUME LeaseInv, NEW S
    PROVE  /\ \A k \in Keys : Read(S, k).val \in 0 .. reloads /\ Read(S, k).val \in Users
           /\ Asked(S) => faults' \in 0 .. MaxFaults
           /\ \A st \in Lease : Owned(st, S) => \A k \in Managed(st) : key[k].tok = st.token
<1>1. ASSUME NEW k \in Keys PROVE Read(S, k).val \in 0 .. reloads /\ Read(S, k).val \in Users
  <2>1. key[k].val \in 0 .. reloads /\ key[k].val \in Users /\ reloads \in 0 .. MaxReloads
    BY InvFacts DEF DataOK
  <2>2. Unbound \in 0 .. reloads BY <2>1, NameFacts
  <2>3. Read(S, k) = key[k] \/ Read(S, k) = Free(Unbound) BY DEF Read
  <2>4. QED BY <2>1, <2>2, <2>3, NameFacts DEF Free
<1>2. Asked(S) => faults' \in 0 .. MaxFaults BY CommonFacts DEF Asked
<1>3. ASSUME NEW st \in Lease, Owned(st, S), NEW k \in Managed(st) PROVE key[k].tok = st.token
  <2>1. Read(S, k).tok = st.token BY <1>3 DEF Owned
  <2>2. st.token # None BY NameFacts DEF Lease
  <2>3. Read(S, k) = key[k] \/ Read(S, k) = Free(Unbound) BY DEF Read
  <2>4. QED BY <2>1, <2>2, <2>3 DEF Free
<1>4. QED BY <1>1, <1>2, <1>3

\* A lease of an older version: nobody is registered.
LEMMA UpgradeInv ==
    ASSUME LeaseInv, NEW p \in Railmuxes, Upgrade(p) PROVE LeaseInv'
<1>1. PICK a : a = proc[p] OBVIOUS
<1>2. a \in ProcType /\ a.at = "upgrade" BY <1>1, InvFacts DEF Upgrade, At
<1>3. a.at \in Working BY <1>2 DEF Working, Labels
<1>4. /\ lock = p /\ pane[p] = "live" /\ HolderOK(p, a) /\ a.at # "off"
  BY <1>1, <1>3, HolderFacts
<1>5. /\ a.st \in Lease /\ Carried(a.st) /\ Dated(a.st) /\ Covers(a.st, Managed(a.st))
      /\ a.st = file /\ file.old /\ a.st.managed = {} /\ a.todo = {} /\ Registered = {}
  <2>1. /\ a.st \in Lease /\ Carried(a.st) /\ Dated(a.st) /\ Covers(a.st, Managed(a.st))
        /\ a.st = file /\ file.old /\ a.todo = {}
    BY <1>2, <1>3, <1>4 DEF HolderOK
  <2>2. QED BY <2>1, RegisteredFacts, InvFacts, NameFacts DEF DataOK, FileOK
<1>6. \/ \E S \in SUBSET Optional : \E m \in SUBSET Optionals(S) :
           /\ file' = Upgraded(a.st, m, S) /\ Asked(S)
           /\ GotoWith(p, "decide", Upgraded(a.st, m, S)) /\ lock' = lock
      \/ Fault /\ Refused(p) /\ file' = file
  BY <1>1, Zenon DEF Upgrade
<1>7. UNCHANGED <<lost, key, opt, pane, want, reloads>> BY DEF Upgrade
<1>8. ASSUME NEW S \in SUBSET Optional, NEW m \in SUBSET Optionals(S),
             file' = Upgraded(a.st, m, S), Asked(S),
             GotoWith(p, "decide", Upgraded(a.st, m, S)), lock' = lock
      PROVE  LeaseInv'
  <2>1. m \subseteq Optional /\ \A k \in m : key[k].tok # a.st.token
    BY <1>5, InvFacts, NameFacts DEF DataOK, FileOK, Optionals
  <2>2. PICK u : u = [k \in Keys |-> IF k \in m THEN Read(S, k).val ELSE a.st.backup[k]]
    OBVIOUS
  <2>3. PICK st : st = Upgraded(a.st, m, S) OBVIOUS
  <2>4. \A k \in Keys : /\ a.st.backup[k] \in 0 .. reloads /\ a.st.backup[k] \in Users
                         /\ Read(S, k).val \in 0 .. reloads /\ Read(S, k).val \in Users
    BY <1>5, ReadFacts DEF Dated, Lease
  <2>5. u \in [Keys -> Users] BY <2>2, <2>4
  <2>6. /\ st \in Lease /\ st.old = FALSE /\ st.phase = "installing" /\ st.managed = m
        /\ st.backup = u /\ st.token = a.st.token /\ st.owners = a.st.owners
    BY <1>5, <2>1, <2>2, <2>3, <2>5 DEF Lease, Upgraded
  <2>7. Carried(st) /\ Dated(st)
    BY <1>5, <2>1, <2>2, <2>4, <2>6 DEF Carried, Dated
  <2>8. Covers(st, Managed(st)) BY <1>5, <2>6 DEF Covers, Managed
  <2>9. faults' \in 0 .. MaxFaults BY <1>8, CommonFacts DEF Asked
  <2>10. "decide" \in Labels /\ st \in Lease \cup {None} BY <2>6 DEF Labels
  <2>11. file' = st /\ GotoWith(p, "decide", st) BY <1>8, <2>3
  <2>12. PICK b \in ProcType :
              /\ Stepped(p, b) /\ b.at = "decide" /\ b.st = st /\ b.todo = proc[p].todo
              /\ b.live = proc[p].live /\ (b.fresh => proc[p].fresh)
    BY <2>10, <2>11, GotoWithStep
  <2>13. b.todo = a.todo /\ b.live = a.live BY <1>1, <2>12
  <2>14. b.at \in Working BY <2>12 DEF Working, Labels
  <2>15. Registered' = {} BY <1>5, <2>12, RegisteredStep
  <2>16. DataOK' BY <1>7, <2>6, <2>7, <2>8, <2>9, <2>11, CommonFacts, DataSaved
  <2>17. Covers(b.st, Managed(b.st))' /\ Carried(b.st)' /\ Dated(b.st)'
    BY <1>7, <2>7, <2>8, <2>12 DEF Covers, Carried, Dated, Managed
  <2>18. HolderOK(p, b)'
    BY <1>5, <2>6, <2>11, <2>12, <2>13, <2>15, <2>17 DEF HolderOK, Bound, Binding, Joining
  <2>19. QED BY <1>1, <1>4, <1>5, <1>7, <1>8, <2>12, <2>14, <2>16, <2>18, GoOn
<1>9. CASE Fault /\ Refused(p) /\ file' = file
  BY <1>4, <1>7, <1>9, OverInv, DataSame, CommonFacts DEF Refused
<1>10. QED BY <1>6, <1>8, <1>9

LEMMA PrunedFacts ==
    ASSUME NEW st \in Lease, NEW S
    PROVE  /\ Pruned(st, S) \in Lease /\ Pruned(st, S).owners = st.owners \cap S
           /\ Pruned(st, S).token = st.token /\ Pruned(st, S).backup = st.backup
           /\ Pruned(st, S).managed = st.managed /\ Pruned(st, S).phase = st.phase
           /\ Pruned(st, S).old = st.old
<1>1. PICK r : r = [st EXCEPT !.owners = @ \cap S] OBVIOUS
<1>2. /\ r \in Lease /\ r.owners = st.owners \cap S /\ r.token = st.token /\ r.backup = st.backup
      /\ r.managed = st.managed /\ r.phase = st.phase /\ r.old = st.old
  BY <1>1 DEF Lease
<1>3. QED BY <1>1, <1>2 DEF Pruned

\* What is said of a lease by its token, backup and keys.
LEMMA SameLease ==
    ASSUME NEW r, NEW s, r.token = s.token, r.backup = s.backup, r.managed = s.managed
    PROVE  /\ Carried(s) => Carried(r)
           /\ Dated(s) => Dated(r)
           /\ Managed(r) = Managed(s)
           /\ \A S : Covers(s, S) => Covers(r, S)
           /\ \A S : BoundOrNewer(s, S) => BoundOrNewer(r, S)
BY DEF Carried, Dated, Managed, Covers, BoundOrNewer

LEMMA DecideFacts ==
    ASSUME LeaseInv, NEW p \in Railmuxes, proc[p].at = "decide",
           NEW st, st = Pruned(proc[p].st, proc[p].live)
    PROVE  /\ lock = p /\ pane[p] = "live"
           /\ st \in Lease /\ Carried(st) /\ Dated(st) /\ Covers(st, Managed(st))
           /\ Rooted(st) /\ ~st.old /\ st.phase = file.phase /\ Registered \subseteq st.owners
           /\ proc[p].st \in Lease /\ proc[p].todo = {}
<1>1. PICK a : a = proc[p] OBVIOUS
<1>2. a \in ProcType /\ a.at = "decide" BY <1>1, InvFacts
<1>3. a.at \in Working BY <1>2 DEF Working, Labels
<1>4. /\ lock = p /\ pane[p] = "live" /\ HolderOK(p, a) BY <1>1, <1>3, HolderFacts
<1>5. /\ a.st \in Lease /\ Carried(a.st) /\ Dated(a.st) /\ Covers(a.st, Managed(a.st))
      /\ a.st = file /\ ~file.old /\ a.todo = {} /\ Registered \subseteq a.live
  BY <1>2, <1>3, <1>4 DEF HolderOK
<1>6. /\ st \in Lease /\ st.owners = a.st.owners \cap a.live
      /\ st.token = a.st.token /\ st.backup = a.st.backup
      /\ st.managed = a.st.managed /\ st.phase = a.st.phase /\ st.old = a.st.old
  BY <1>1, <1>5, PrunedFacts
<1>7. Carried(st) /\ Dated(st) /\ Covers(st, Managed(st)) BY <1>5, <1>6, SameLease
<1>8. Rooted(st) BY <1>5, <1>6, NameFacts DEF Rooted
<1>9. Registered \subseteq st.owners BY <1>5, <1>6, RegisteredFacts
<1>10. QED BY <1>1, <1>4, <1>5, <1>6, <1>7, <1>8, <1>9

LEMMA DecideInv ==
    ASSUME LeaseInv, NEW p \in Railmuxes, Decide(p) PROVE LeaseInv'
<1>1. PICK st : st = Pruned(proc[p].st, proc[p].live) OBVIOUS
<1>2. /\ proc[p].at = "decide" /\ opt' = PrunedOptions(proc[p].st, proc[p].live)
      /\ UNCHANGED <<lost, key, file, lock, pane, want, reloads>>
  BY DEF Decide, At
<1>3. /\ lock = p /\ pane[p] = "live"
      /\ st \in Lease /\ Carried(st) /\ Dated(st) /\ Covers(st, Managed(st))
      /\ Rooted(st) /\ ~st.old /\ st.phase = file.phase /\ Registered \subseteq st.owners
      /\ proc[p].st \in Lease /\ proc[p].todo = {}
  BY <1>1, <1>2, DecideFacts
<1>4. opt' \in Options BY <1>2, <1>3, OptionFacts, CommonFacts
<1>5. PICK S \in SUBSET Keys :
        /\ Asked(S)
        /\ \/ /\ Good(st, S) /\ st.phase = "installing"
              /\ proc' = [proc EXCEPT ![p].at = "set", ![p].st = st,
                                      ![p].todo = Managed(st), ![p].fresh = FALSE]
           \/ Good(st, S) /\ st.phase = "active" /\ GotoWith(p, "join", st)
           \/ st.owners = {} /\ RestoreThen(p, st, "prepare")
  BY <1>1, Zenon DEF Decide
<1>6. faults' \in 0 .. MaxFaults BY <1>5, ReadFacts
<1>7. DataOK' BY <1>2, <1>4, <1>6, DataSame
<1>8. Carried(st)' /\ Dated(st)' /\ Covers(st, Managed(st))' /\ Rooted(st)'
  BY <1>2, <1>3 DEF Carried, Dated, Covers, Managed, Rooted
<1>9. CASE /\ st.phase = "installing"
           /\ proc' = [proc EXCEPT ![p].at = "set", ![p].st = st,
                                   ![p].todo = Managed(st), ![p].fresh = FALSE]
  <2>1. PICK a : a = proc[p] OBVIOUS
  <2>2. a \in ProcType BY <2>1, InvFacts
  <2>3. Managed(st) \in SUBSET Keys /\ Core \subseteq Managed(st)
    BY <1>3, NameFacts DEF Managed, Lease
  <2>4. PICK b : b = [a EXCEPT !.at = "set", !.st = st, !.todo = Managed(st), !.fresh = FALSE]
    OBVIOUS
  <2>5. b \in ProcType /\ b.at = "set" /\ b.st = st /\ b.todo = Managed(st) /\ ~b.fresh
    BY <1>3, <2>2, <2>3, <2>4 DEF ProcType, Labels
  <2>6. Stepped(p, b) BY <1>9, <2>1, <2>4, <2>5, InvFacts DEF Stepped
  <2>7. Registered = {} /\ Registered' = {} BY <1>3, <1>9, <2>5, <2>6, RegisteredFacts, RegisteredStep
  <2>8. BoundOrNewer(b.st, Core \ b.todo)' BY <2>3, <2>5 DEF BoundOrNewer
  <2>9. HolderOK(p, b)' BY <1>3, <1>8, <2>5, <2>7, <2>8 DEF HolderOK, Bound, Binding, Joining
  <2>10. b.at \in Working BY <2>5 DEF Working, Labels
  <2>11. QED BY <1>2, <1>3, <1>7, <2>5, <2>6, <2>9, <2>10, GoOn
<1>10. CASE Good(st, S) /\ st.phase = "active" /\ GotoWith(p, "join", st)
  <2>1. \A k \in Managed(st) : key[k].tok = st.token
    <3>1. Owned(st, S) BY <1>10 DEF Good
    <3>2. QED BY <1>3, <3>1, ReadFacts
  <2>2. "join" \in Labels /\ st \in Lease \cup {None} BY <1>3 DEF Labels
  <2>3. PICK b \in ProcType :
             /\ Stepped(p, b) /\ b.at = "join" /\ b.st = st /\ b.todo = proc[p].todo
             /\ b.live = proc[p].live /\ (b.fresh => proc[p].fresh)
    BY <1>10, <2>2, GotoWithStep
  <2>4. Registered' \subseteq st.owners BY <1>3, <2>3, RegisteredStep
  <2>5. BoundOrNewer(b.st, Core \ b.todo)'
    BY <1>2, <2>3, <2>1 DEF BoundOrNewer, Managed
  <2>6. HolderOK(p, b)'
    BY <1>3, <1>8, <1>10, <2>3, <2>4, <2>5 DEF HolderOK, Bound, Binding, Joining
  <2>7. b.at \in Working BY <2>3 DEF Working, Labels
  <2>8. QED BY <1>2, <1>3, <1>7, <2>3, <2>6, <2>7, GoOn
<1>11. CASE st.owners = {} /\ RestoreThen(p, st, "prepare")
  <2>1. Registered \subseteq {p} BY <1>3, <1>11
  <2>2. QED BY <1>2, <1>3, <1>4, <1>11, <1>6, <2>1, RestoreThenInv
<1>12. QED BY <1>5, <1>9, <1>10, <1>11

LEMMA FailClosedInv ==
    ASSUME LeaseInv, NEW p \in Railmuxes, FailClosed(p) PROVE LeaseInv'
<1>1. PICK st : st = Pruned(proc[p].st, proc[p].live) OBVIOUS
<1>2. /\ proc[p].at = "decide" /\ opt' = PrunedOptions(proc[p].st, proc[p].live)
      /\ UNCHANGED <<lost, key, file, pane, want, reloads>> /\ Refused(p)
      /\ \E S \in SUBSET Keys : Asked(S)
  BY DEF FailClosed, At
<1>3. lock = p /\ proc[p].st \in Lease BY <1>1, <1>2, DecideFacts
<1>4. opt' \in Options /\ faults' \in 0 .. MaxFaults
  BY <1>2, <1>3, OptionFacts, CommonFacts, ReadFacts
<1>5. DataOK' BY <1>2, <1>4, DataSame
<1>6. QED BY <1>2, <1>3, <1>5, OverInv DEF Refused

\* The lease that Prepare saves.
Fresh(p, st, t, m, S) ==
    st = [token |-> t, phase |-> "installing", old |-> FALSE, owners |-> {p}, managed |-> m,
          backup |-> [k \in Keys |-> IF k \in Core \cup m THEN Read(S, k).val ELSE Unbound]]

LEMMA PrepareSteps ==
    ASSUME NEW p, Prepare(p)
    PROVE  \/ Fault /\ Refused(p) /\ UNCHANGED <<misread, file>>
           \/ \E S \in SUBSET Keys, t \in Tokens : \E m \in SUBSET Optionals(S) : \E st :
                /\ Fresh(p, st, t, m, S) /\ Unused(t) /\ file' = st /\ Asked(S) /\ UNCHANGED lock
                /\ proc' = [proc EXCEPT ![p].at = "set", ![p].st = st,
                                        ![p].todo = Core \cup m, ![p].fresh = TRUE]
                /\ misread' = misread \cup Mistaken(S \cap (Core \cup m))
BY Zenon DEF Prepare, Fresh

LEMMA PrepareInv ==
    ASSUME LeaseInv, NEW p \in Railmuxes, Prepare(p) PROVE LeaseInv'
<1>1. PICK a : a = proc[p] OBVIOUS
<1>2. a \in ProcType /\ a.at = "prepare" BY <1>1, InvFacts DEF Prepare, At
<1>3. a.at \in Working BY <1>2 DEF Working, Labels
<1>4. /\ lock = p /\ pane[p] = "live" /\ HolderOK(p, a) /\ a.at # "off"
  BY <1>1, <1>3, HolderFacts
<1>5. Registered = {} /\ \A k \in Keys \ lost : key[k].tok = None
  BY <1>2, <1>3, <1>4 DEF HolderOK
<1>6. UNCHANGED <<lost, key, opt, pane, want, reloads>> BY DEF Prepare
<1>7. CASE Fault /\ Refused(p) /\ UNCHANGED file
  BY <1>4, <1>6, <1>7, OverInv, DataSame, CommonFacts DEF Refused
<1>8. ASSUME NEW S \in SUBSET Keys, NEW t \in Tokens, NEW m \in SUBSET Optionals(S),
             NEW st, Fresh(p, st, t, m, S), Unused(t), file' = st, Asked(S), UNCHANGED lock,
             proc' = [proc EXCEPT ![p].at = "set", ![p].st = st,
                                  ![p].todo = Core \cup m, ![p].fresh = TRUE]
      PROVE  LeaseInv'
  <2>1. /\ st \in Lease /\ st.token = t /\ ~st.old /\ st.owners = {p} /\ Managed(st) = Core \cup m
        /\ Core \cup m \in SUBSET Keys /\ Dated(st)
    <3>1. m \subseteq Optional /\ Core \cup m \in SUBSET Keys BY NameFacts DEF Optionals
    <3>2. PICK u : u = [k \in Keys |-> IF k \in Core \cup m THEN Read(S, k).val ELSE Unbound]
      OBVIOUS
    <3>3. \A k \in Keys : u[k] \in Users /\ u[k] \in 0 .. reloads
      <4>1. Unbound \in Users /\ Unbound \in 0 .. reloads BY InvFacts, NameFacts DEF DataOK
      <4>2. QED BY <3>2, <4>1, ReadFacts
    <3>4. u \in [Keys -> Users] BY <3>2, <3>3
    <3>5. st = [token |-> t, phase |-> "installing", old |-> FALSE, owners |-> {p},
                managed |-> m, backup |-> u]
      BY <1>8, <3>2 DEF Fresh
    <3>6. /\ st \in Lease /\ st.token = t /\ ~st.old /\ st.owners = {p} /\ st.managed = m
          /\ st.backup = u
      BY <3>1, <3>4, <3>5 DEF Lease
    <3>7. QED BY <3>1, <3>3, <3>6 DEF Managed, Dated
  <2>2. Carried(st) /\ Covers(st, Managed(st))
    BY <1>5, <1>8, <2>1 DEF Carried, Covers, Unused
  <2>3. PICK b : b = [a EXCEPT !.at = "set", !.st = st, !.todo = Core \cup m, !.fresh = TRUE]
    OBVIOUS
  <2>4. b \in ProcType /\ b.at = "set" /\ b.st = st /\ b.todo = Managed(st)
    BY <1>2, <2>1, <2>3 DEF ProcType, Labels
  <2>5. Stepped(p, b) BY <1>1, <1>8, <2>3, <2>4, InvFacts DEF Stepped
  <2>6. Registered' = {} BY <1>5, <2>4, <2>5, RegisteredStep
  <2>7. faults' \in 0 .. MaxFaults BY <1>8, ReadFacts
  <2>8. DataOK' BY <1>6, <1>8, <2>1, <2>2, <2>7, DataSaved, CommonFacts
  <2>9. Carried(st)' /\ Dated(st)' /\ Covers(st, Managed(st))'
    BY <1>6, <2>1, <2>2 DEF Carried, Dated, Covers, Managed
  <2>10. Rooted(st)' BY <1>8, <2>1, NameFacts DEF Rooted
  <2>11. BoundOrNewer(b.st, Core \ b.todo)' BY <2>1, <2>4 DEF BoundOrNewer
  <2>12. HolderOK(p, b)'
    BY <2>1, <2>4, <2>6, <2>9, <2>10, <2>11 DEF HolderOK, Bound, Binding, Joining
  <2>13. b.at \in Working BY <2>4 DEF Working, Labels
  <2>14. QED BY <1>1, <1>4, <1>5, <1>6, <1>8, <2>4, <2>5, <2>8, <2>12, <2>13, GoOn
<1>9. QED BY <1>7, <1>8, PrepareSteps

LEMMA DeclineInv ==
    ASSUME LeaseInv, NEW p \in Railmuxes, Decline(p) PROVE LeaseInv'
<1>1. proc[p].at = "prepare" BY DEF Decline, At
<1>2. proc[p].at \in Working BY <1>1 DEF Working, Labels
<1>3. lock = p BY <1>2, HolderFacts
<1>4. QED BY <1>3, OverInv, DataSame, CommonFacts DEF Decline, Refused

-----------------------------------------------------------------------------
(* Binding the keys *)

\* What a process knows while it binds.
LEMMA BindingFacts ==
    ASSUME LeaseInv, NEW p \in Railmuxes, NEW a, a = proc[p], a.at \in Bound
    PROVE  /\ a \in ProcType /\ lock = p /\ pane[p] = "live" /\ a.at # "off" /\ proc[p].at # "off"
           /\ a.st \in Lease /\ Carried(a.st) /\ Dated(a.st) /\ Covers(a.st, Managed(a.st))
           /\ Rooted(a.st) /\ ~a.st.old /\ BoundOrNewer(a.st, Core \ a.todo)
           /\ a.at \in Binding => /\ a.todo \subseteq Managed(a.st) /\ Registered = {}
                                  /\ (a.fresh => p \in a.st.owners)
<1>1. a \in ProcType BY InvFacts
<1>2. a.at \in Working /\ a.at \notin {"prepare", "restore"}
  BY DEF Working, Labels, Bound, Binding, Joining
<1>3. lock = p /\ pane[p] = "live" /\ HolderOK(p, a) /\ a.at # "off" BY <1>2, HolderFacts
<1>4. QED BY <1>1, <1>2, <1>3 DEF HolderOK, Binding

LEMMA SetKeyInv ==
    ASSUME LeaseInv, NEW p \in Railmuxes, NEW k \in Keys, SetKey(p, k) PROVE LeaseInv'
<1>1. PICK a : a = proc[p] OBVIOUS
<1>2. a.at = "set" BY <1>1 DEF SetKey, At
<1>3. /\ a \in ProcType /\ lock = p /\ pane[p] = "live" /\ proc[p].at # "off"
      /\ a.st \in Lease /\ Carried(a.st) /\ Dated(a.st) /\ Covers(a.st, Managed(a.st))
      /\ Rooted(a.st) /\ ~a.st.old /\ BoundOrNewer(a.st, Core \ a.todo)
      /\ a.todo \subseteq Managed(a.st) /\ Registered = {}
      /\ (a.fresh => p \in a.st.owners)
  BY <1>1, <1>2, BindingFacts DEF Bound, Binding
<1>4. /\ k \in a.todo /\ k \in Managed(a.st) /\ k \in Managed(file)
  <2>1. k \in a.todo BY <1>1 DEF SetKey, FirstKeys
  <2>2. QED BY <1>3, <2>1 DEF Managed, Rooted
<1>5. pane' = pane /\ UNCHANGED <<lost, file, opt, want, reloads>> BY DEF SetKey
<1>6. \/ /\ key' = [key EXCEPT ![k] = Wrapper(a.st, k)]
         /\ proc' = [proc EXCEPT ![p].todo = @ \ {k}]
         /\ NoFault /\ UNCHANGED lock
      \/ /\ Fault /\ UNCHANGED key
         /\ \/ RestoreThen(p, a.st, "up") /\ UNCHANGED lock
            \/ Refused(p)
            \/ /\ k \in Optional /\ UNCHANGED lock
               /\ proc' = [proc EXCEPT ![p].at = "undo", ![p].bad = {k}]
  BY <1>1, Zenon DEF SetKey
<1>7. CASE /\ key' = [key EXCEPT ![k] = Wrapper(a.st, k)]
           /\ proc' = [proc EXCEPT ![p].todo = @ \ {k}]
           /\ NoFault /\ UNCHANGED lock
  <2>1. PICK b : b = [a EXCEPT !.todo = @ \ {k}] OBVIOUS
  <2>2. /\ b \in ProcType /\ b.at = "set" /\ b.st = a.st /\ b.todo = a.todo \ {k}
        /\ (b.fresh => a.fresh)
    BY <1>2, <1>3, <2>1 DEF ProcType
  <2>3. Stepped(p, b) BY <1>1, <1>7, <2>1, <2>2, InvFacts DEF Stepped
  <2>4. Registered' = {} BY <1>3, <2>2, <2>3, RegisteredStep
  <2>5. /\ key' \in [Keys -> [tok : Tokens \cup {None}, val : Users]]
        /\ key'[k].tok = a.st.token /\ key'[k].val = a.st.backup[k]
        /\ \A j \in Keys \ {k} : key'[j] = key[j]
    BY <1>3, <1>7, InvFacts DEF DataOK, Wrapper, Lease
  <2>6. a.st.backup[k] \in 0 .. reloads BY <1>3 DEF Dated
  <2>7. NoOrphan'
    BY <1>3, <1>4, <1>5, <2>5, InvFacts DEF DataOK, NoOrphan, Rooted, Managed
  <2>8. FileOK'
    BY <1>3, <1>5, <2>5, InvFacts DEF DataOK, FileOK, Carried, Dated, Rooted
  <2>9. DataOK'
    BY <1>5, <1>7, <2>5, <2>6, <2>7, <2>8, InvFacts, CommonFacts DEF DataOK
  <2>10. Carried(a.st)' /\ Dated(a.st)' /\ Covers(a.st, Managed(a.st))'
    BY <1>3, <1>4, <1>5, <2>5 DEF Carried, Dated, Covers, Managed
  <2>11. BoundOrNewer(b.st, Core \ b.todo)'
    BY <1>3, <2>2, <2>5, NameFacts DEF BoundOrNewer
  <2>12. Rooted(a.st)' BY <1>3, <1>5 DEF Rooted
  <2>13. HolderOK(p, b)'
    BY <1>3, <2>2, <2>4, <2>10, <2>11, <2>12 DEF HolderOK, Bound, Binding, Joining
  <2>14. b.at \in Working BY <2>2 DEF Working, Labels
  <2>15. QED BY <1>3, <1>5, <1>7, <2>2, <2>3, <2>9, <2>13, <2>14, GoOn
<1>8. CASE Fault /\ UNCHANGED key /\ RestoreThen(p, a.st, "up") /\ UNCHANGED lock
  BY <1>3, <1>5, <1>8, RestoreThenInv, CommonFacts
<1>9. CASE Fault /\ UNCHANGED key /\ Refused(p)
  BY <1>3, <1>5, <1>9, OverInv, DataSame, CommonFacts DEF Refused
<1>10. CASE /\ Fault /\ UNCHANGED key /\ k \in Optional /\ UNCHANGED lock
            /\ proc' = [proc EXCEPT ![p].at = "undo", ![p].bad = {k}]
  <2>1. PICK b : b = [a EXCEPT !.at = "undo", !.bad = {k}] OBVIOUS
  <2>2. /\ b \in ProcType /\ b.at = "undo" /\ b.st = a.st /\ b.todo = a.todo
        /\ (b.fresh => a.fresh)
    BY <1>3, <1>10, <2>1 DEF ProcType, Labels
  <2>3. Stepped(p, b) BY <1>1, <1>10, <2>1, <2>2, InvFacts DEF Stepped
  <2>4. Registered' = {} BY <1>3, <2>2, <2>3, RegisteredStep
  <2>5. DataOK' BY <1>5, <1>10, DataSame, CommonFacts
  <2>6. /\ Carried(b.st)' /\ Dated(b.st)' /\ Covers(b.st, Managed(b.st))'
        /\ BoundOrNewer(b.st, Core \ b.todo)' /\ Rooted(b.st)'
    BY <1>3, <1>5, <1>10, <2>2 DEF Carried, Dated, Covers, Managed, BoundOrNewer, Rooted
  <2>7. HolderOK(p, b)' BY <1>3, <2>2, <2>4, <2>6 DEF HolderOK, Bound, Binding, Joining
  <2>8. b.at \in Working BY <2>2 DEF Working, Labels
  <2>9. QED BY <1>3, <1>5, <1>10, <2>2, <2>3, <2>5, <2>7, <2>8, GoOn
<1>11. QED BY <1>6, <1>7, <1>8, <1>9, <1>10

\* A restored key has no wrapper of the lease any more, or it is lost.
LEMMA RestoreFacts ==
    ASSUME LeaseInv, NEW p \in Railmuxes, NEW k \in Keys, NEW st, st = proc[p].st,
           st \in Lease, Carried(st), Dated(st), NEW S, Covers(st, S),
           Restore(p, k), UNCHANGED <<file, opt, want, reloads>>
    PROVE  /\ DataOK' /\ Carried(st)' /\ Dated(st)'
           /\ \A T : S \subseteq T \cup {k} => Covers(st, T)'
           /\ \A j \in Keys \ {k} : key'[j] = key[j]
<1>1. st.token \in Tokens /\ None \notin Tokens /\ st.backup[k] \in Users BY NameFacts DEF Lease
<1>2. key \in [Keys -> [tok : Tokens \cup {None}, val : Users]] BY InvFacts DEF DataOK
<1>3. CASE key' = [key EXCEPT ![k] = Restored(st, k)] /\ NoFault /\ UNCHANGED lost
  <2>1. /\ key' \in [Keys -> [tok : Tokens \cup {None}, val : Users]]
        /\ \A j \in Keys \ {k} : key'[j] = key[j]
        /\ key'[k] = key[k] \/ key'[k] = Free(st.backup[k])
        /\ key[k].tok = st.token => key'[k].tok = None
    BY <1>1, <1>2, <1>3 DEF Restored, Free
  <2>2. key'[k] = key[k] \/ (key'[k].tok = None /\ key'[k].val = st.backup[k])
    BY <2>1 DEF Free
  <2>3. \A j \in Keys : key'[j] = key[j] \/ (key'[j].tok = None /\ key'[j].val \in 0 .. reloads)
    BY <2>1, <2>2 DEF Dated
  <2>4. NoOrphan' BY <1>3, <2>3, InvFacts DEF DataOK, NoOrphan, Managed
  <2>5. FileOK'
    <3>1. file # None => file.token # None BY InvFacts, NameFacts DEF DataOK, Lease
    <3>2. QED BY <2>3, <3>1, InvFacts, NameFacts DEF DataOK, FileOK, Carried, Dated
  <2>6. DataOK' BY <1>3, <2>1, <2>3, <2>4, <2>5, InvFacts, CommonFacts DEF DataOK
  <2>7. Carried(st)' /\ Dated(st)' BY <1>1, <2>3 DEF Carried, Dated
  <2>8. ASSUME NEW T, S \subseteq T \cup {k} PROVE Covers(st, T)'
    BY <1>1, <1>3, <2>1, <2>2, <2>3, <2>8 DEF Covers
  <2>9. QED BY <2>1, <2>6, <2>7, <2>8
<1>4. CASE /\ Fault /\ UNCHANGED key
           /\ lost' = IF key[k].tok = st.token THEN lost \cup {k} ELSE lost
  <2>1. lost \subseteq lost' /\ lost' \in SUBSET Keys BY <1>4, InvFacts DEF DataOK
  <2>2. NoOrphan' /\ FileOK'
    BY <1>4, <2>1, InvFacts DEF DataOK, NoOrphan, Managed, FileOK, Carried, Dated
  <2>3. DataOK' BY <1>4, <2>1, <2>2, InvFacts, CommonFacts DEF DataOK
  <2>4. Carried(st)' /\ Dated(st)' BY <1>4 DEF Carried, Dated
  <2>5. ASSUME NEW T, S \subseteq T \cup {k} PROVE Covers(st, T)'
    BY <1>4, <2>1, <2>5 DEF Covers
  <2>6. QED BY <1>4, <2>3, <2>4, <2>5
<1>5. QED BY <1>3, <1>4 DEF Restore

LEMMA UndoInv ==
    ASSUME LeaseInv, NEW p \in Railmuxes, Undo(p) PROVE LeaseInv'
<1>1. PICK a : a = proc[p] OBVIOUS
<1>2. a.at = "undo" BY <1>1 DEF Undo, At
<1>3. /\ a \in ProcType /\ lock = p /\ pane[p] = "live" /\ proc[p].at # "off"
      /\ a.st \in Lease /\ Carried(a.st) /\ Dated(a.st) /\ Covers(a.st, Managed(a.st))
      /\ Rooted(a.st) /\ ~a.st.old /\ BoundOrNewer(a.st, Core \ a.todo)
      /\ a.todo \subseteq Managed(a.st) /\ Registered = {}
      /\ (a.fresh => p \in a.st.owners)
  BY <1>1, <1>2, BindingFacts DEF Bound, Binding
<1>4. PICK k \in a.bad :
        /\ Restore(p, k)
        /\ proc' = [proc EXCEPT ![p].at = "drop", ![p].bad = {},
                                ![p].todo = @ \ {k}, ![p].st.managed = @ \ {k}]
  BY <1>1 DEF Undo
<1>5. UNCHANGED <<file, opt, want, reloads>> /\ lock' = lock /\ pane' = pane BY DEF Undo
<1>6. k \in Optional /\ k \in Keys /\ k \notin Core BY <1>3, NameFacts DEF ProcType
<1>7. PICK st : st = [a.st EXCEPT !.managed = @ \ {k}] OBVIOUS
<1>8. /\ st \in Lease /\ st.managed = a.st.managed \ {k} /\ st.token = a.st.token
      /\ st.backup = a.st.backup /\ st.old = a.st.old /\ st.owners = a.st.owners
  BY <1>3, <1>7 DEF Lease
<1>9. PICK b : b = [a EXCEPT !.at = "drop", !.bad = {}, !.todo = @ \ {k}, !.st = st] OBVIOUS
<1>10. /\ b \in ProcType /\ b.at = "drop" /\ b.st = st /\ b.todo = a.todo \ {k}
       /\ (b.fresh => a.fresh)
  BY <1>3, <1>8, <1>9 DEF ProcType, Labels
<1>11. b = [a EXCEPT !.at = "drop", !.bad = {}, !.todo = @ \ {k}, !.st.managed = @ \ {k}]
  BY <1>3, <1>7, <1>9 DEF ProcType
<1>12. Stepped(p, b) BY <1>1, <1>4, <1>10, <1>11, InvFacts DEF Stepped
<1>13. Registered' = {} BY <1>3, <1>10, <1>12, RegisteredStep
<1>14. /\ DataOK' /\ Carried(a.st)' /\ Dated(a.st)'
       /\ \A T : Managed(a.st) \subseteq T \cup {k} => Covers(a.st, T)'
       /\ \A j \in Keys \ {k} : key'[j] = key[j]
  BY <1>1, <1>3, <1>4, <1>5, <1>6, RestoreFacts
<1>15. Managed(a.st) \subseteq Managed(st) \cup {k} BY <1>8 DEF Managed
<1>16. Covers(a.st, Managed(st))' BY <1>14, <1>15
<1>17. Carried(st)' /\ Dated(st)' /\ Covers(st, Managed(st))'
  BY <1>8, <1>14, <1>16 DEF Carried, Dated, Covers
<1>18. BoundOrNewer(st, Core \ b.todo)'
  BY <1>3, <1>6, <1>8, <1>10, <1>14, NameFacts DEF BoundOrNewer
<1>19. Rooted(st)' BY <1>3, <1>5, <1>8 DEF Rooted
<1>20. b.todo \subseteq Managed(st) BY <1>3, <1>6, <1>8, <1>10 DEF Managed
<1>21. HolderOK(p, b)'
  BY <1>3, <1>8, <1>10, <1>13, <1>17, <1>18, <1>19, <1>20 DEF HolderOK, Bound, Binding, Joining
<1>22. b.at \in Working BY <1>10 DEF Working, Labels
<1>23. QED BY <1>3, <1>5, <1>10, <1>12, <1>14, <1>21, <1>22, GoOn

\* A save that fails: a new lease is undone, an older one left as it is.
LEMMA SaveFails ==
    ASSUME LeaseInv, NEW p \in Railmuxes, NEW st \in Lease, lock = p, pane[p] = "live",
           proc[p].at # "off", Registered = {}, Carried(st), Dated(st), Covers(st, Managed(st)),
           UNCHANGED <<lost, key, file, opt, pane, want, reloads>>, Fault,
           (RestoreThen(p, st, "up") /\ UNCHANGED lock) \/ Refused(p)
    PROVE  LeaseInv'
<1>1. CASE RestoreThen(p, st, "up") /\ UNCHANGED lock
  BY <1>1, RestoreThenInv, CommonFacts
<1>2. CASE Refused(p) BY <1>2, OverInv, DataSame, CommonFacts DEF Refused
<1>3. QED BY <1>1, <1>2

LEMMA DropInv ==
    ASSUME LeaseInv, NEW p \in Railmuxes, Drop(p) PROVE LeaseInv'
<1>1. PICK a : a = proc[p] OBVIOUS
<1>2. a.at = "drop" BY <1>1 DEF Drop, At
<1>3. /\ a \in ProcType /\ lock = p /\ pane[p] = "live" /\ proc[p].at # "off"
      /\ a.st \in Lease /\ Carried(a.st) /\ Dated(a.st) /\ Covers(a.st, Managed(a.st))
      /\ Rooted(a.st) /\ ~a.st.old /\ BoundOrNewer(a.st, Core \ a.todo)
      /\ a.todo \subseteq Managed(a.st) /\ Registered = {}
      /\ (a.fresh => p \in a.st.owners)
  BY <1>1, <1>2, BindingFacts DEF Bound, Binding
<1>4. UNCHANGED <<lost, key, opt, pane, want, reloads>> BY DEF Drop
<1>5. \/ file' = a.st /\ Goto(p, "set") /\ NoFault /\ UNCHANGED lock
      \/ /\ Fault /\ UNCHANGED file
         /\ (RestoreThen(p, a.st, "up") /\ UNCHANGED lock) \/ Refused(p)
  BY <1>1, Zenon DEF Drop, Save
<1>6. CASE file' = a.st /\ Goto(p, "set") /\ NoFault /\ UNCHANGED lock
  <2>1. "set" \in Labels BY DEF Labels
  <2>2. PICK b \in ProcType :
             /\ Stepped(p, b) /\ b.at = "set" /\ b.st = proc[p].st /\ b.todo = proc[p].todo
             /\ b.live = proc[p].live /\ (b.fresh => proc[p].fresh)
    BY <1>6, <2>1, GotoStep
  <2>3. b.st = a.st /\ b.todo = a.todo /\ (b.fresh => a.fresh) BY <1>1, <2>2
  <2>4. Registered' = {} BY <1>3, <2>2, RegisteredStep
  <2>5. DataOK' BY <1>3, <1>4, <1>6, DataSaved, CommonFacts
  <2>6. /\ Carried(b.st)' /\ Dated(b.st)' /\ Covers(b.st, Managed(b.st))'
        /\ BoundOrNewer(b.st, Core \ b.todo)' /\ Rooted(b.st)'
    BY <1>3, <1>4, <1>6, <2>3, NameFacts
    DEF Carried, Dated, Covers, Managed, BoundOrNewer, Rooted
  <2>7. HolderOK(p, b)' BY <1>3, <2>2, <2>3, <2>4, <2>6 DEF HolderOK, Bound, Binding, Joining
  <2>8. b.at \in Working BY <2>2 DEF Working, Labels
  <2>9. QED BY <1>3, <1>4, <1>6, <2>2, <2>5, <2>7, <2>8, GoOn
<1>7. CASE /\ Fault /\ UNCHANGED file
           /\ (RestoreThen(p, a.st, "up") /\ UNCHANGED lock) \/ Refused(p)
  BY <1>3, <1>4, <1>7, SaveFails
<1>8. QED BY <1>5, <1>6, <1>7

LEMMA ActivateInv ==
    ASSUME LeaseInv, NEW p \in Railmuxes, Activate(p) PROVE LeaseInv'
<1>1. PICK a : a = proc[p] OBVIOUS
<1>2. a.at = "set" /\ a.todo = {} BY <1>1 DEF Activate, At
<1>3. /\ a \in ProcType /\ lock = p /\ pane[p] = "live" /\ proc[p].at # "off"
      /\ a.st \in Lease /\ Carried(a.st) /\ Dated(a.st) /\ Covers(a.st, Managed(a.st))
      /\ Rooted(a.st) /\ ~a.st.old /\ BoundOrNewer(a.st, Core \ a.todo)
      /\ Registered = {} /\ (a.fresh => p \in a.st.owners)
  BY <1>1, <1>2, BindingFacts DEF Bound, Binding
<1>4. UNCHANGED <<lost, key, opt, pane, want, reloads>> BY DEF Activate
<1>5. PICK st : st = [a.st EXCEPT !.phase = "active"] OBVIOUS
<1>6. /\ st \in Lease /\ st.phase = "active" /\ st.token = a.st.token /\ st.backup = a.st.backup
      /\ st.managed = a.st.managed /\ st.old = a.st.old /\ st.owners = a.st.owners
  BY <1>3, <1>5 DEF Lease
<1>7. \/ a.fresh /\ file' = st /\ GotoWith(p, "control", st) /\ NoFault /\ UNCHANGED lock
      \/ /\ Fault /\ UNCHANGED file
         /\ (RestoreThen(p, st, "up") /\ UNCHANGED lock) \/ Refused(p)
      \/ GotoWith(p, "join", st) /\ UNCHANGED <<file, lock, faults>>
  BY <1>1, <1>5, Zenon DEF Activate, Save
<1>8. /\ Carried(st) /\ Dated(st) /\ Covers(st, Managed(st)) /\ Rooted(st)
      /\ BoundOrNewer(st, Core)
  <2>1. BoundOrNewer(a.st, Core) BY <1>2, <1>3 DEF BoundOrNewer
  <2>2. Rooted(st) BY <1>3, <1>6 DEF Rooted
  <2>3. QED BY <1>3, <1>6, <2>1, <2>2, SameLease
<1>9. Carried(st)' /\ Dated(st)' /\ Covers(st, Managed(st))' /\ BoundOrNewer(st, Core)'
  BY <1>4, <1>8 DEF Carried, Dated, Covers, Managed, BoundOrNewer
<1>10. st \in Lease \cup {None} /\ "control" \in Labels /\ "join" \in Labels BY <1>6 DEF Labels
<1>11. CASE a.fresh /\ file' = st /\ GotoWith(p, "control", st) /\ NoFault /\ UNCHANGED lock
  <2>1. PICK b \in ProcType :
             /\ Stepped(p, b) /\ b.at = "control" /\ b.st = st /\ b.todo = proc[p].todo
             /\ b.live = proc[p].live /\ (b.fresh => proc[p].fresh)
    BY <1>10, <1>11, GotoWithStep
  <2>2. b.todo = {} /\ Core \ b.todo = Core BY <1>1, <1>2, <2>1
  <2>3. Registered' = {} BY <1>3, <2>1, RegisteredStep
  <2>4. DataOK' BY <1>3, <1>4, <1>6, <1>8, <1>11, DataSaved, CommonFacts
  <2>5. Rooted(st)' BY <1>3, <1>6, <1>11, NameFacts DEF Rooted
  <2>6. HolderOK(p, b)'
    BY <1>3, <1>6, <1>9, <1>11, <2>1, <2>2, <2>3, <2>5 DEF HolderOK, Bound, Binding, Joining
  <2>7. b.at \in Working BY <2>1 DEF Working, Labels
  <2>8. QED BY <1>3, <1>4, <1>11, <2>1, <2>4, <2>6, <2>7, GoOn
<1>12. CASE /\ Fault /\ UNCHANGED file
            /\ (RestoreThen(p, st, "up") /\ UNCHANGED lock) \/ Refused(p)
  BY <1>3, <1>4, <1>6, <1>8, <1>12, SaveFails
<1>13. CASE GotoWith(p, "join", st) /\ UNCHANGED <<file, lock, faults>>
  <2>1. PICK b \in ProcType :
             /\ Stepped(p, b) /\ b.at = "join" /\ b.st = st /\ b.todo = proc[p].todo
             /\ b.live = proc[p].live /\ (b.fresh => proc[p].fresh)
    BY <1>10, <1>13, GotoWithStep
  <2>2. b.todo = {} /\ Core \ b.todo = Core BY <1>1, <1>2, <2>1
  <2>3. Registered' = {} BY <1>3, <2>1, RegisteredStep
  <2>4. DataOK' BY <1>4, <1>13, DataSame, CommonFacts
  <2>5. Rooted(st)' BY <1>8, <1>13 DEF Rooted
  <2>6. HolderOK(p, b)'
    BY <1>3, <1>6, <1>9, <1>13, <2>1, <2>2, <2>3, <2>5 DEF HolderOK, Bound, Binding, Joining
  <2>7. b.at \in Working BY <2>1 DEF Working, Labels
  <2>8. QED BY <1>3, <1>4, <1>13, <2>1, <2>4, <2>6, <2>7, GoOn
<1>14. QED BY <1>7, <1>11, <1>12, <1>13

LEMMA ControlInv ==
    ASSUME LeaseInv, NEW p \in Railmuxes, Control(p) PROVE LeaseInv'
<1>1. PICK a : a = proc[p] OBVIOUS
<1>2. a.at = "control" BY <1>1 DEF Control, At
<1>3. /\ a \in ProcType /\ lock = p /\ pane[p] = "live" /\ proc[p].at # "off"
      /\ a.st \in Lease /\ Carried(a.st) /\ Dated(a.st) /\ Covers(a.st, Managed(a.st))
      /\ Rooted(a.st) /\ ~a.st.old /\ BoundOrNewer(a.st, Core \ a.todo)
  BY <1>1, <1>2, BindingFacts DEF Bound
<1>4. a.todo = {} /\ a.st = file /\ file.phase = "active" /\ p \in file.owners /\ Registered = {}
  <2>1. HolderOK(p, a) /\ a.at \in Working BY <1>1, <1>2, HolderFacts DEF Working, Labels
  <2>2. QED BY <1>2, <2>1 DEF HolderOK
<1>5. UNCHANGED <<lost, key, file, pane, want, reloads>> BY DEF Control
<1>6. CASE opt' = [opt EXCEPT ![WindowOf[p]] = p] /\ Over(p, "up", TRUE) /\ NoFault
  <2>1. opt' \in Options BY <1>6, OptionFacts, CommonFacts
  <2>2. DataOK' BY <1>5, <1>6, <2>1, DataSame, CommonFacts
  <2>3. PICK b : b = Idle("up", TRUE) OBVIOUS
  <2>4. /\ b \in ProcType /\ Stepped(p, b) /\ b.at = "up" /\ b.todo = {} /\ lock' = None
    BY <1>6, <2>3, OverStep
  <2>5. b.at \notin Working BY <2>4 DEF Working
  <2>6. HolderOK(p, b)' BY <2>5 DEF HolderOK
  <2>7. Registered' \subseteq {p} BY <1>4, <2>4, RegisteredStep
  <2>8. BoundOrNewer(file, Core)' BY <1>3, <1>4, <1>5 DEF BoundOrNewer
  <2>9. file' # None /\ ~file'.old /\ file'.phase = "active" /\ p \in file'.owners
    BY <1>3, <1>4, <1>5, NameFacts
  <2>10. RegisteredOK' BY <2>7, <2>8, <2>9 DEF RegisteredOK
  <2>11. QED BY <1>3, <1>5, <2>2, <2>4, <2>5, <2>6, <2>10, HolderStep
<1>7. CASE Fault /\ RestoreThen(p, a.st, "up") /\ UNCHANGED <<opt, lock>>
  BY <1>3, <1>4, <1>5, <1>7, RestoreThenInv, CommonFacts
<1>8. QED BY <1>1, <1>6, <1>7 DEF Control

-----------------------------------------------------------------------------
(* Joining *)

LEMMA JoiningFacts ==
    ASSUME LeaseInv, NEW p \in Railmuxes, NEW a, a = proc[p], a.at \in Joining
    PROVE  a.todo = {} /\ a.st.phase = "active" /\ Registered \subseteq a.st.owners
<1>1. HolderOK(p, a) /\ a.at \in Working BY HolderFacts DEF Working, Labels, Joining
<1>2. QED BY <1>1 DEF HolderOK

LEMMA JoinInv ==
    ASSUME LeaseInv, NEW p \in Railmuxes, Join(p) PROVE LeaseInv'
<1>1. PICK a : a = proc[p] OBVIOUS
<1>2. a.at = "join" BY <1>1 DEF Join, At
<1>3. /\ a \in ProcType /\ lock = p /\ pane[p] = "live" /\ proc[p].at # "off"
      /\ a.st \in Lease /\ Carried(a.st) /\ Dated(a.st) /\ Covers(a.st, Managed(a.st))
      /\ Rooted(a.st) /\ ~a.st.old /\ BoundOrNewer(a.st, Core \ a.todo)
  BY <1>1, <1>2, BindingFacts DEF Bound, Joining
<1>4. a.todo = {} /\ a.st.phase = "active" /\ Registered \subseteq a.st.owners
  BY <1>1, <1>2, JoiningFacts DEF Joining
<1>5. UNCHANGED <<lost, key, file, pane, want, reloads>> BY DEF Join
<1>6. CASE /\ opt' = [opt EXCEPT ![WindowOf[p]] = p] /\ Goto(p, "joined") /\ NoFault
           /\ UNCHANGED lock
  <2>1. opt' \in Options BY <1>6, OptionFacts, CommonFacts
  <2>2. opt'[WindowOf[p]] = p BY <1>6, CommonFacts DEF Options, Windows
  <2>3. DataOK' BY <1>5, <1>6, <2>1, DataSame, CommonFacts
  <2>4. "joined" \in Labels BY DEF Labels
  <2>5. PICK b \in ProcType :
             /\ Stepped(p, b) /\ b.at = "joined" /\ b.st = proc[p].st /\ b.todo = proc[p].todo
             /\ b.live = proc[p].live /\ (b.fresh => proc[p].fresh)
    BY <1>6, <2>4, GotoStep
  <2>6. b.st = a.st /\ b.todo = a.todo BY <1>1, <2>5
  <2>7. Registered' \subseteq Registered BY <2>5, RegisteredStep
  <2>8. /\ Carried(b.st)' /\ Dated(b.st)' /\ Covers(b.st, Managed(b.st))'
        /\ BoundOrNewer(b.st, Core \ b.todo)' /\ Rooted(b.st)'
    BY <1>3, <1>5, <2>6 DEF Carried, Dated, Covers, Managed, BoundOrNewer, Rooted
  <2>9. HolderOK(p, b)'
    BY <1>3, <1>4, <2>2, <2>5, <2>6, <2>7, <2>8 DEF HolderOK, Bound, Binding, Joining
  <2>10. b.at \in Working BY <2>5 DEF Working, Labels
  <2>11. QED BY <1>3, <1>5, <1>6, <2>3, <2>5, <2>9, <2>10, GoOn
<1>7. CASE Fault /\ Refused(p) /\ UNCHANGED opt
  BY <1>3, <1>5, <1>7, OverInv, DataSame, CommonFacts DEF Refused
<1>8. QED BY <1>6, <1>7 DEF Join

LEMMA JoinedInv ==
    ASSUME LeaseInv, NEW p \in Railmuxes, Joined(p) PROVE LeaseInv'
<1>1. PICK a : a = proc[p] OBVIOUS
<1>2. a.at = "joined" BY <1>1 DEF Joined, At
<1>3. /\ a \in ProcType /\ lock = p /\ pane[p] = "live" /\ proc[p].at # "off"
      /\ a.st \in Lease /\ Carried(a.st) /\ Dated(a.st) /\ Covers(a.st, Managed(a.st))
      /\ Rooted(a.st) /\ ~a.st.old /\ BoundOrNewer(a.st, Core \ a.todo)
  BY <1>1, <1>2, BindingFacts DEF Bound, Joining
<1>4. a.todo = {} /\ a.st.phase = "active" /\ Registered \subseteq a.st.owners
  BY <1>1, <1>2, JoiningFacts DEF Joining
<1>5. UNCHANGED <<lost, key, pane, want, reloads>> BY DEF Joined
<1>6. PICK st : st = [a.st EXCEPT !.owners = @ \cup {p}] OBVIOUS
<1>7. /\ st \in Lease /\ st.phase = "active" /\ st.token = a.st.token /\ st.backup = a.st.backup
      /\ st.managed = a.st.managed /\ st.old = a.st.old /\ st.owners = a.st.owners \cup {p}
  BY <1>3, <1>4, <1>6 DEF Lease
<1>8. Carried(st) /\ Dated(st) /\ Covers(st, Managed(st)) /\ BoundOrNewer(st, Core)
  <2>1. BoundOrNewer(a.st, Core) BY <1>3, <1>4 DEF BoundOrNewer
  <2>2. QED BY <1>3, <1>7, <2>1, SameLease
<1>9. CASE file' = st /\ Over(p, "up", TRUE) /\ NoFault /\ UNCHANGED opt
  <2>1. DataOK' BY <1>3, <1>5, <1>7, <1>8, <1>9, DataSaved, CommonFacts
  <2>2. PICK b : b = Idle("up", TRUE) OBVIOUS
  <2>3. /\ b \in ProcType /\ Stepped(p, b) /\ b.at = "up" /\ b.todo = {} /\ lock' = None
    BY <1>9, <2>2, OverStep
  <2>4. b.at \notin Working BY <2>3 DEF Working
  <2>5. HolderOK(p, b)' BY <2>4 DEF HolderOK
  <2>6. Registered' \subseteq file'.owners BY <1>4, <1>7, <1>9, <2>3, RegisteredStep
  <2>7. BoundOrNewer(file, Core)' BY <1>5, <1>8, <1>9 DEF BoundOrNewer
  <2>8. file' # None /\ ~file'.old /\ file'.phase = "active" BY <1>3, <1>7, <1>9, NameFacts
  <2>9. RegisteredOK' BY <2>6, <2>7, <2>8 DEF RegisteredOK
  <2>10. QED BY <1>3, <1>5, <2>1, <2>3, <2>4, <2>5, <2>9, HolderStep
<1>10. CASE /\ Fault /\ Refused(p) /\ UNCHANGED file
            /\ opt' \in HandedOver(Unset(opt, p), a.st.owners, p)
  <2>1. a.st.owners \in SUBSET Railmuxes BY <1>3 DEF Lease
  <2>2. opt' \in Options BY <1>10, <2>1, OptionFacts, CommonFacts
  <2>3. DataOK' BY <1>5, <1>10, <2>2, DataSame, CommonFacts
  <2>4. QED BY <1>3, <1>5, <1>10, <2>3, OverInv DEF Refused
<1>11. QED BY <1>1, <1>6, <1>9, <1>10 DEF Joined

-----------------------------------------------------------------------------
(* Undoing a lease *)

LEMMA RestoringFacts ==
    ASSUME LeaseInv, NEW p \in Railmuxes, NEW a, a = proc[p], a.at = "restore"
    PROVE  /\ a \in ProcType /\ lock = p /\ pane[p] = "live" /\ proc[p].at # "off"
           /\ a.st \in Lease /\ Carried(a.st) /\ Dated(a.st) /\ Covers(a.st, a.todo)
           /\ a.then \in {"prepare", "up", "closed"} /\ Registered = {}
<1>1. a \in ProcType BY InvFacts
<1>2. a.at \in Working BY DEF Working, Labels
<1>3. lock = p /\ pane[p] = "live" /\ HolderOK(p, a) /\ proc[p].at # "off" BY <1>2, HolderFacts
<1>4. QED BY <1>1, <1>2, <1>3 DEF HolderOK, ProcType

LEMMA RestoreKeyInv ==
    ASSUME LeaseInv, NEW p \in Railmuxes, NEW k \in Keys, RestoreKey(p, k) PROVE LeaseInv'
<1>1. PICK a : a = proc[p] OBVIOUS
<1>2. a.at = "restore" BY <1>1 DEF RestoreKey, At
<1>3. /\ a \in ProcType /\ lock = p /\ pane[p] = "live" /\ proc[p].at # "off"
      /\ a.st \in Lease /\ Carried(a.st) /\ Dated(a.st) /\ Covers(a.st, a.todo)
      /\ a.then \in {"prepare", "up", "closed"} /\ Registered = {}
  BY <1>1, <1>2, RestoringFacts
<1>4. /\ UNCHANGED <<file, opt, want, reloads>> /\ lock' = lock /\ pane' = pane
      /\ Restore(p, k) /\ proc' = [proc EXCEPT ![p].todo = @ \ {k}]
  BY DEF RestoreKey
<1>5. PICK b : b = [a EXCEPT !.todo = @ \ {k}] OBVIOUS
<1>6. /\ b \in ProcType /\ b.at = "restore" /\ b.st = a.st /\ b.todo = a.todo \ {k}
      /\ b.then = a.then
  BY <1>2, <1>3, <1>5 DEF ProcType
<1>7. Stepped(p, b) BY <1>1, <1>4, <1>5, <1>6, InvFacts DEF Stepped
<1>8. Registered' = {} BY <1>3, <1>6, <1>7, RegisteredStep
<1>9. /\ DataOK' /\ Carried(a.st)' /\ Dated(a.st)'
      /\ \A T : a.todo \subseteq T \cup {k} => Covers(a.st, T)'
  BY <1>1, <1>3, <1>4, RestoreFacts
<1>10. a.todo \subseteq b.todo \cup {k} BY <1>6
<1>11. Covers(a.st, b.todo)' BY <1>9, <1>10
<1>12. HolderOK(p, b)' BY <1>3, <1>6, <1>8, <1>9, <1>11 DEF HolderOK, Bound, Binding, Joining
<1>13. b.at \in Working BY <1>6 DEF Working, Labels
<1>14. QED BY <1>3, <1>4, <1>6, <1>7, <1>9, <1>12, <1>13, GoOn

LEMMA RemoveInv ==
    ASSUME LeaseInv, NEW p \in Railmuxes, Remove(p) PROVE LeaseInv'
<1>1. PICK a : a = proc[p] OBVIOUS
<1>2. a.at = "restore" /\ a.todo = {} BY <1>1 DEF Remove, At
<1>3. /\ a \in ProcType /\ lock = p /\ pane[p] = "live" /\ proc[p].at # "off"
      /\ Covers(a.st, a.todo)
      /\ a.then \in {"prepare", "up", "closed"} /\ Registered = {}
  BY <1>1, <1>2, RestoringFacts
<1>4. UNCHANGED <<lost, key, opt, pane, want, reloads>> BY DEF Remove
<1>5. ASSUME NEW k \in Keys \ lost PROVE key[k].tok = None
  <2>1. k \notin a.todo BY <1>2
  <2>2. QED BY <1>3, <2>1 DEF Covers
<1>6. (file' = None /\ NoFault) \/ (UNCHANGED file /\ Fault) BY DEF Remove
<1>7. DataOK'
  <2>1. CASE file' = None /\ NoFault
    <3>1. NoOrphan' /\ FileOK' BY <1>4, <1>5, <2>1 DEF NoOrphan, FileOK
    <3>2. QED BY <1>4, <2>1, <3>1, InvFacts, CommonFacts DEF DataOK
  <2>2. CASE UNCHANGED file /\ Fault BY <1>4, <2>2, DataSame, CommonFacts
  <2>3. QED BY <1>6, <2>1, <2>2
<1>8. CASE Goto(p, "prepare") /\ UNCHANGED lock
  <2>1. "prepare" \in Labels BY DEF Labels
  <2>2. PICK b \in ProcType :
             /\ Stepped(p, b) /\ b.at = "prepare" /\ b.st = proc[p].st /\ b.todo = proc[p].todo
             /\ b.live = proc[p].live /\ (b.fresh => proc[p].fresh)
    BY <1>8, <2>1, GotoStep
  <2>3. Registered' = {} BY <1>3, <2>2, RegisteredStep
  <2>4. HolderOK(p, b)' BY <1>4, <1>5, <2>2, <2>3 DEF HolderOK, Bound, Binding, Joining
  <2>5. b.at \in Working BY <2>2 DEF Working, Labels
  <2>6. QED BY <1>3, <1>4, <1>7, <1>8, <2>2, <2>4, <2>5, GoOn
<1>9. CASE a.then # "prepare" /\ Over(p, a.then, FALSE)
  <2>1. a.then \in {"up", "closed"} BY <1>3, <1>9
  <2>2. QED BY <1>3, <1>4, <1>7, <1>9, <2>1, OverInv
<1>10. QED BY <1>1, <1>8, <1>9 DEF Remove

-----------------------------------------------------------------------------
(* close *)

\* Another process may be at work when one leaves without the lock.
LEMMA CloseUnlockedInv ==
    ASSUME LeaseInv, NEW p \in Railmuxes, CloseUnlocked(p) PROVE LeaseInv'
<1>1. /\ proc[p].at = "up" /\ opt' = Unset(opt, p)
      /\ proc' = [proc EXCEPT ![p] = [NoProcess EXCEPT !.at = "closed"]]
      /\ UNCHANGED <<lost, key, file, lock, pane, want, reloads>>
  BY DEF CloseUnlocked, At
<1>2. faults' \in 0 .. MaxFaults BY CommonFacts DEF CloseUnlocked
<1>3. PICK b : b = [NoProcess EXCEPT !.at = "closed"] OBVIOUS
<1>4. b \in ProcType /\ b.at = "closed" /\ b.todo = {}
  <2>1. PICK n : n = NoProcess OBVIOUS
  <2>2. n \in ProcType /\ n.todo = {} BY <2>1, NoneType
  <2>3. b = [n EXCEPT !.at = "closed"] BY <1>3, <2>1
  <2>4. QED BY <2>2, <2>3 DEF ProcType, Labels
<1>5. Stepped(p, b) BY <1>1, <1>3, <1>4, InvFacts DEF Stepped
<1>6. opt' \in Options BY <1>1, OptionFacts, CommonFacts
<1>7. DataOK' BY <1>1, <1>2, <1>6, DataSame
<1>8. RegisteredOK' BY <1>1, <1>4, <1>5, RegisteredStays
<1>9. Registered' \subseteq Registered BY <1>4, <1>5, RegisteredStep
<1>10. ASSUME NEW q \in Railmuxes, q # p PROVE ProcessOK(q)'
  <2>1. PICK a : a = proc[q] OBVIOUS
  <2>2. proc'[q] = a BY <1>5, <1>10, <2>1 DEF Stepped
  <2>3. ProcessOK(q) /\ a \in ProcType BY <2>1, InvFacts
  <2>4. a.at = "joined" => opt'[WindowOf[q]] = q
    <3>1. a.at = "joined" => opt[WindowOf[q]] = q
      BY <2>1, <2>3 DEF ProcessOK, HolderOK, Working, Labels
    <3>2. opt[WindowOf[q]] = q => opt'[WindowOf[q]] = q
      BY <1>1, <1>10, CommonFacts DEF Unset, Options, Windows
    <3>3. QED BY <3>1, <3>2
  <2>5. HolderOK(q, a) => HolderOK(q, a)'
    BY <1>1, <1>9, <2>4
    DEF HolderOK, Carried, Dated, Covers, BoundOrNewer, Rooted
  <2>6. QED BY <1>1, <2>1, <2>2, <2>3, <2>5 DEF ProcessOK
<1>11. ProcessOK(p)'
  <2>1. ProcessOK(p) BY InvFacts
  <2>2. b.at \notin Working BY <1>4 DEF Working
  <2>3. proc[p].at \notin Working BY <1>1 DEF Working
  <2>4. QED BY <1>1, <1>4, <1>5, <2>1, <2>2, <2>3 DEF ProcessOK, Stepped, HolderOK
<1>12. QED BY <1>1, <1>5, <1>7, <1>8, <1>10, <1>11, InvFacts DEF LeaseInv, Stepped

LEMMA CloseInv ==
    ASSUME LeaseInv, NEW p \in Railmuxes, Close(p) PROVE LeaseInv'
<1>1. /\ proc[p].at = "up" /\ file # None /\ lock = None /\ lock' = p
      /\ UNCHANGED <<lost, key, file, pane, want, reloads, faults>>
  BY DEF Close, At
<1>2. PICK rest : rest = Rest(file, p) OBVIOUS
<1>3. file \in Lease BY <1>1, InvFacts DEF DataOK
<1>4. rest = (file.owners \cap Live) \ {p} BY <1>2 DEF Rest
<1>5. rest \in SUBSET Railmuxes BY <1>3, <1>4 DEF Lease
<1>6. PICK st : st = [file EXCEPT !.owners = rest] OBVIOUS
<1>7. /\ st \in Lease /\ st.owners = rest /\ st.token = file.token /\ st.backup = file.backup
      /\ st.managed = file.managed /\ st = [file EXCEPT !.owners = st.owners]
  BY <1>3, <1>5, <1>6 DEF Lease
<1>8. /\ opt' \in HandedOver(Unset(PrunedOptions(file, Live), p), rest, p)
         \/ opt' = Unset(PrunedOptions(file, Live), p)
      /\ \/ rest # {} /\ GotoWith(p, "leave", st)
         \/ rest = {} /\ RestoreThen(p, st, "closed")
  BY <1>2, <1>6 DEF Close
<1>9. opt' \in Options
  <2>1. PICK o : o = PrunedOptions(file, Live) OBVIOUS
  <2>2. o \in Options BY <1>3, <2>1, OptionFacts, CommonFacts
  <2>3. PICK u : u = Unset(o, p) OBVIOUS
  <2>4. u \in Options BY <2>2, <2>3, OptionFacts
  <2>5. opt' \in HandedOver(u, rest, p) \/ opt' = u BY <1>8, <2>1, <2>3
  <2>6. QED BY <1>5, <2>4, <2>5, OptionFacts
<1>10. Carried(st) /\ Dated(st) /\ Covers(st, Managed(st))
  <2>1. Carried(file) /\ Dated(file) BY <1>1, InvFacts DEF DataOK, FileOK
  <2>2. Covers(file, Managed(file)) BY <1>1, InvFacts DEF DataOK, NoOrphan, Covers
  <2>3. QED BY <1>7, <2>1, <2>2, SameLease
<1>11. Registered \subseteq rest \cup {p} BY <1>1, <1>4, RegisteredFacts
<1>12. proc[p].at # "off" /\ pane[p] = "live" BY <1>1, InvFacts DEF ProcessOK
<1>13. faults' \in 0 .. MaxFaults BY <1>1, CommonFacts
<1>14. CASE rest # {} /\ GotoWith(p, "leave", st)
  <2>1. "leave" \in Labels /\ st \in Lease \cup {None} BY <1>7 DEF Labels
  <2>2. PICK b \in ProcType :
             /\ Stepped(p, b) /\ b.at = "leave" /\ b.st = st /\ b.todo = proc[p].todo
             /\ b.live = proc[p].live /\ (b.fresh => proc[p].fresh)
    BY <1>14, <2>1, GotoWithStep
  <2>3. Registered' \subseteq st.owners BY <1>7, <1>11, <2>2, RegisteredStep
  <2>4. DataOK' BY <1>1, <1>9, <1>13, DataSame
  <2>5. Carried(st)' /\ Dated(st)' /\ Covers(st, Managed(st))'
    BY <1>1, <1>10 DEF Carried, Dated, Covers, Managed
  <2>6. HolderOK(p, b)'
    BY <1>1, <1>7, <2>2, <2>3, <2>5 DEF HolderOK, Bound, Binding, Joining
  <2>7. b.at \in Working BY <2>2 DEF Working, Labels
  <2>8. QED BY <1>1, <1>12, <2>2, <2>4, <2>6, <2>7, GoOn
<1>15. CASE rest = {} /\ RestoreThen(p, st, "closed")
  <2>1. Registered \subseteq {p} BY <1>11, <1>15
  <2>2. QED BY <1>1, <1>7, <1>9, <1>10, <1>12, <1>13, <1>15, <2>1, RestoreThenInv
<1>16. QED BY <1>8, <1>14, <1>15

LEMMA LeaveInv ==
    ASSUME LeaseInv, NEW p \in Railmuxes, Leave(p) PROVE LeaseInv'
<1>1. PICK a : a = proc[p] OBVIOUS
<1>2. a.at = "leave" BY <1>1 DEF Leave, At
<1>3. a.at \in Working BY <1>2 DEF Working, Labels
<1>4. lock = p /\ HolderOK(p, a) BY <1>1, <1>3, HolderFacts
<1>5. /\ a.st \in Lease /\ Carried(a.st) /\ Dated(a.st) /\ Covers(a.st, Managed(a.st))
      /\ file # None /\ Registered \subseteq a.st.owners
      /\ a.st = [file EXCEPT !.owners = a.st.owners]
  BY <1>2, <1>3, <1>4 DEF HolderOK
<1>6. file \in Lease BY <1>5, InvFacts DEF DataOK
<1>7. PICK o : o = a.st.owners OBVIOUS
<1>8. /\ a.st.token = file.token /\ a.st.backup = file.backup /\ a.st.managed = file.managed
      /\ a.st.phase = file.phase /\ a.st.old = file.old
  BY <1>5, <1>6, <1>7 DEF Lease
<1>9. UNCHANGED <<lost, key, opt, pane, want, reloads>> /\ Over(p, "closed", FALSE)
  BY DEF Leave
<1>10. CASE file' = a.st /\ NoFault
  <2>1. DataOK'
    <3>1. NoOrphan'
      BY <1>5, <1>9, <1>10, NameFacts DEF NoOrphan, Covers, Managed
    <3>2. FileOK'
      BY <1>5, <1>8, <1>9, <1>10, InvFacts DEF DataOK, FileOK, Carried, Dated
    <3>3. QED BY <1>5, <1>9, <1>10, <3>1, <3>2, InvFacts, CommonFacts DEF DataOK
  <2>2. RegisteredOK'
    <3>1. PICK b : b = Idle("closed", FALSE) OBVIOUS
    <3>2. b \in ProcType /\ Stepped(p, b) /\ b.at = "closed" BY <1>9, <3>1, OverStep
    <3>3. Registered' \subseteq Registered BY <3>2, RegisteredStep
    <3>4. ASSUME NEW q \in Registered' PROVE BoundOrNewer(file, Core)'
      <4>1. BoundOrNewer(file, Core) BY <3>3, InvFacts DEF RegisteredOK
      <4>2. QED BY <1>8, <1>9, <1>10, <4>1 DEF BoundOrNewer
    <3>5. Registered' # {} => ~file'.old /\ file'.phase = "active"
      BY <1>8, <1>10, <3>3, RegisteredFacts
    <3>6. file' # None /\ Registered' \subseteq file'.owners BY <1>5, <1>10, <3>3, NameFacts
    <3>7. QED BY <3>4, <3>5, <3>6 DEF RegisteredOK
  <2>3. QED BY <1>4, <1>9, <2>1, <2>2, OverInv
<1>11. CASE UNCHANGED file /\ Fault
  BY <1>4, <1>9, <1>11, OverInv, DataSame, CommonFacts
<1>12. QED BY <1>1, <1>10, <1>11 DEF Leave

-----------------------------------------------------------------------------
(* Processes and the user *)

LEMMA StartInv ==
    ASSUME LeaseInv, NEW p \in Railmuxes, Start(p) PROVE LeaseInv'
<1>1. /\ proc[p].at = "off" /\ pane' = [pane EXCEPT ![p] = "live"] /\ Goto(p, "up")
      /\ UNCHANGED <<lost, key, file, opt, lock, want, reloads, faults>>
  BY DEF Start, At
<1>2. PICK a : a = proc[p] OBVIOUS
<1>3. a \in ProcType /\ a.at = "off" BY <1>1, <1>2, InvFacts
<1>4. ~a.reg /\ a.todo = {} /\ lock # p
  BY <1>1, <1>2, InvFacts DEF ProcessOK, Working
<1>5. PICK b : b = [a EXCEPT !.at = "up"] OBVIOUS
<1>6. b \in ProcType /\ b.at = "up" /\ b.todo = {} /\ ~b.reg
  BY <1>3, <1>4, <1>5 DEF ProcType, Labels
<1>7. Stepped(p, b) BY <1>1, <1>2, <1>5, <1>6, InvFacts DEF Goto, Stepped
<1>8. Registered' \subseteq Registered BY <1>6, <1>7, RegisteredStep
<1>9. DataOK' BY <1>1, DataSame, CommonFacts
<1>10. RegisteredOK' BY <1>1, <1>6, <1>7, RegisteredStays
<1>11. ASSUME NEW q \in Railmuxes, q # p PROVE ProcessOK(q)'
  <2>1. PICK c : c = proc[q] OBVIOUS
  <2>2. proc'[q] = c BY <1>7, <1>11, <2>1 DEF Stepped
  <2>3. pane'[q] = pane[q] BY <1>1, <1>11, InvFacts
  <2>4. HolderOK(q, c) => HolderOK(q, c)'
    BY <1>1, <1>8 DEF HolderOK, Carried, Dated, Covers, BoundOrNewer, Rooted
  <2>5. ProcessOK(q) BY InvFacts
  <2>6. QED BY <1>1, <2>1, <2>2, <2>3, <2>4, <2>5 DEF ProcessOK
<1>12. ProcessOK(p)'
  <2>1. b.at \notin Working BY <1>6 DEF Working
  <2>2. pane'[p] = "live" BY <1>1, InvFacts
  <2>3. QED BY <1>1, <1>4, <1>6, <1>7, <2>1, <2>2 DEF ProcessOK, Stepped, HolderOK
<1>13. pane' \in [Railmuxes -> {"unborn", "live", "dead"}] BY <1>1, InvFacts
<1>14. QED
  BY <1>1, <1>7, <1>9, <1>10, <1>11, <1>12, <1>13, InvFacts DEF LeaseInv, Stepped

\* Whoever dies leaves the file as it is; what the others know stays true.
LEMMA GoneInv ==
    ASSUME LeaseInv, NEW p \in Railmuxes, Gone(p) PROVE LeaseInv'
<1>1. /\ proc' = [proc EXCEPT ![p] = NoProcess]
      /\ lock' = IF lock = p THEN None ELSE lock
      /\ UNCHANGED <<lost, key, file, opt, want, reloads, faults>>
      /\ pane' = [pane EXCEPT ![p] = "dead"] \/ UNCHANGED pane
  BY DEF Gone
<1>2. PICK b : b = NoProcess OBVIOUS
<1>3. b \in ProcType /\ b.at = "off" /\ b.todo = {} /\ ~b.reg
  BY <1>2, NoneType DEF NoProcess
<1>4. Stepped(p, b) BY <1>1, <1>2, <1>3, InvFacts DEF Stepped
<1>5. Registered' \subseteq Registered BY <1>3, <1>4, RegisteredStep
<1>6. DataOK' BY <1>1, DataSame, CommonFacts
<1>7. RegisteredOK' BY <1>1, <1>3, <1>4, RegisteredStays
<1>8. ASSUME NEW q \in Railmuxes, q # p PROVE ProcessOK(q)'
  <2>1. PICK c : c = proc[q] OBVIOUS
  <2>2. proc'[q] = c BY <1>4, <1>8, <2>1 DEF Stepped
  <2>3. pane'[q] = pane[q] BY <1>1, <1>8, InvFacts
  <2>4. HolderOK(q, c) => HolderOK(q, c)'
    BY <1>1, <1>5 DEF HolderOK, Carried, Dated, Covers, BoundOrNewer, Rooted
  <2>5. ProcessOK(q) BY InvFacts
  <2>6. (lock' = q) <=> (lock = q) BY <1>1, <1>8, NameFacts
  <2>7. QED BY <2>1, <2>2, <2>3, <2>4, <2>5, <2>6 DEF ProcessOK
<1>9. ProcessOK(p)'
  <2>1. b.at \notin Working BY <1>3 DEF Working
  <2>2. lock' # p BY <1>1, NameFacts
  <2>3. QED BY <1>3, <1>4, <2>1, <2>2 DEF ProcessOK, Stepped, HolderOK
<1>10. pane' \in [Railmuxes -> {"unborn", "live", "dead"}] /\ lock' \in Railmuxes \cup {None}
  BY <1>1, InvFacts
<1>11. QED BY <1>4, <1>6, <1>7, <1>8, <1>9, <1>10 DEF LeaseInv, Stepped

\* A reload takes keys back: no wrapper appears, and what it binds is newer than
\* every backup.
LEMMA ReloadInv ==
    ASSUME LeaseInv, NEW S \in SUBSET Keys, Reload(S) PROVE LeaseInv'
<1>1. /\ reloads < MaxReloads /\ reloads' = reloads + 1
      /\ key' = [k \in Keys |-> IF k \in S THEN Free(reloads') ELSE key[k]]
      /\ want' = [k \in Keys |-> IF k \in S THEN reloads' ELSE want[k]]
      /\ UNCHANGED <<lost, file, opt, lock, pane, proc, faults>>
  BY DEF Reload
<1>2. /\ reloads \in Nat /\ reloads' \in 0 .. MaxReloads /\ reloads' \in Users
      /\ \A n \in 0 .. reloads : n \in 0 .. reloads' /\ n < reloads'
  BY <1>1, InvFacts, NameFacts DEF DataOK
<1>3. /\ key \in [Keys -> [tok : Tokens \cup {None}, val : Users]]
      /\ \A k \in Keys : key[k].val \in 0 .. reloads
  BY InvFacts DEF DataOK
<1>4. /\ key' \in [Keys -> [tok : Tokens \cup {None}, val : Users]]
      /\ \A k \in Keys : key'[k] = key[k] \/ (key'[k].tok = None /\ key'[k].val = reloads')
  BY <1>1, <1>2, <1>3 DEF Free
<1>5. want' \in [Keys -> Users] BY <1>1, <1>2, InvFacts DEF DataOK
<1>6. \A k \in Keys : key'[k].val \in 0 .. reloads' BY <1>2, <1>3, <1>4
<1>7. ASSUME NEW st \in Lease
      PROVE  /\ Carried(st) => Carried(st)'
             /\ Dated(st) => Dated(st)'
             /\ \A T : Covers(st, T) => Covers(st, T)'
             /\ \A T \in SUBSET Keys : Dated(st) /\ BoundOrNewer(st, T) => BoundOrNewer(st, T)'
  <2>1. st.token # None BY <1>7, NameFacts DEF Lease
  <2>2. Carried(st) => Carried(st)' BY <1>4, <2>1 DEF Carried
  <2>3. Dated(st) => Dated(st)' BY <1>2 DEF Dated
  <2>4. \A T : Covers(st, T) => Covers(st, T)' BY <1>1, <1>4 DEF Covers
  <2>5. ASSUME NEW T \in SUBSET Keys, Dated(st), BoundOrNewer(st, T) PROVE BoundOrNewer(st, T)'
    <3>1. ASSUME NEW k \in T PROVE key'[k].tok = st.token \/ key'[k].val > st.backup[k]
      <4>1. k \in Keys /\ st.backup[k] \in 0 .. reloads BY <2>5 DEF Dated
      <4>2. st.backup[k] < reloads' BY <1>2, <4>1
      <4>3. key[k].tok = st.token \/ key[k].val > st.backup[k] BY <2>5 DEF BoundOrNewer
      <4>4. st.backup[k] \in Nat BY <1>2, <4>1
      <4>5. CASE key'[k] = key[k] BY <4>3, <4>5
      <4>6. CASE key'[k].val = reloads' BY <1>2, <4>2, <4>4, <4>6
      <4>7. QED BY <1>4, <4>1, <4>5, <4>6
    <3>2. QED BY <3>1 DEF BoundOrNewer
  <2>6. QED BY <2>2, <2>3, <2>4, <2>5
<1>8. NoOrphan' BY <1>1, <1>4, InvFacts DEF DataOK, NoOrphan, Managed
<1>9. FileOK'
  <2>1. CASE file = None BY <1>1, <2>1 DEF FileOK
  <2>2. CASE file # None
    <3>1. file \in Lease /\ FileOK BY <2>2, InvFacts DEF DataOK
    <3>2. Carried(file)' /\ Dated(file)'
      <4>1. PICK st : st = file OBVIOUS
      <4>2. st \in Lease /\ Carried(st) /\ Dated(st) BY <2>2, <3>1, <4>1 DEF FileOK, Carried, Dated
      <4>3. Carried(st)' /\ Dated(st)' BY <1>7, <4>2
      <4>4. st = file' BY <1>1, <4>1
      <4>5. QED BY <4>3, <4>4 DEF Carried, Dated
    <3>3. file'.old => \A k \in Optional : key'[k].tok # file'.token
      BY <1>1, <1>4, <2>2, <3>1, NameFacts DEF FileOK, Lease
    <3>4. QED BY <1>1, <2>2, <3>1, <3>2, <3>3 DEF FileOK
  <2>3. QED BY <2>1, <2>2
<1>10. DataOK'
  BY <1>1, <1>2, <1>4, <1>5, <1>6, <1>8, <1>9, InvFacts, CommonFacts DEF DataOK, Options
<1>11. Registered' = Registered BY <1>1 DEF Registered, At
<1>12. RegisteredOK'
  <2>1. ASSUME NEW p \in Registered PROVE BoundOrNewer(file, Core)'
    <3>1. PICK st : st = file OBVIOUS
    <3>2. file # None /\ BoundOrNewer(file, Core) BY InvFacts DEF RegisteredOK
    <3>3. st \in Lease /\ Dated(st) /\ BoundOrNewer(st, Core)
      BY <3>1, <3>2, InvFacts DEF DataOK, FileOK
    <3>4. BoundOrNewer(st, Core)' BY <1>7, <3>3, NameFacts
    <3>5. st = file' BY <1>1, <3>1
    <3>6. QED BY <3>4, <3>5 DEF BoundOrNewer
  <2>2. \A p \in Registered : BoundOrNewer(file, Core)' BY <2>1
  <2>3. RegisteredOK BY InvFacts
  <2>4. QED BY <1>1, <1>11, <2>2, <2>3 DEF RegisteredOK
<1>13. ASSUME NEW q \in Railmuxes PROVE ProcessOK(q)'
  <2>1. PICK a : a = proc[q] OBVIOUS
  <2>2. ProcessOK(q) /\ a \in ProcType BY <2>1, InvFacts
  <2>3. ASSUME HolderOK(q, a) PROVE HolderOK(q, a)'
    <3>1. CASE a.at \notin Working BY <3>1 DEF HolderOK
    <3>2. CASE a.at = "prepare"
      <4>1. \A k \in Keys \ lost : key[k].tok = None
        BY <2>3, <3>2 DEF HolderOK, Working, Labels
      <4>2. Registered = {} BY <2>3, <3>2 DEF HolderOK, Working, Labels
      <4>3. \A k \in Keys \ lost' : key'[k].tok = None BY <1>1, <1>4, <4>1
      <4>4. QED BY <1>11, <3>2, <4>2, <4>3 DEF HolderOK, Bound, Binding, Joining
    <3>3. CASE a.at \in Working \ {"prepare"}
      <4>1. a.st \in Lease /\ Carried(a.st) /\ Dated(a.st) BY <2>3, <3>3 DEF HolderOK
      <4>2. Carried(a.st)' /\ Dated(a.st)' BY <1>7, <4>1
      <4>3. \A T : Covers(a.st, T) => Covers(a.st, T)' BY <1>7, <4>1
      <4>4. BoundOrNewer(a.st, Core \ a.todo) => BoundOrNewer(a.st, Core \ a.todo)'
        BY <1>7, <4>1, NameFacts
      <4>5. Rooted(a.st) => Rooted(a.st)' BY <1>1 DEF Rooted
      <4>6. QED
        BY <1>1, <1>11, <2>3, <3>3, <4>1, <4>2, <4>3, <4>4, <4>5 DEF HolderOK
    <3>4. QED BY <3>1, <3>2, <3>3
  <2>4. QED BY <1>1, <2>1, <2>2, <2>3 DEF ProcessOK
<1>14. QED BY <1>1, <1>10, <1>12, <1>13, InvFacts DEF LeaseInv

-----------------------------------------------------------------------------
(* The invariant always holds *)

LEMMA InitInv == Init => LeaseInv
<1> SUFFICES ASSUME Init PROVE LeaseInv OBVIOUS
<1>1. /\ opt = [w \in Windows |-> None] /\ lock = None
      /\ pane = [p \in Railmuxes |-> "unborn"] /\ proc = [p \in Railmuxes |-> NoProcess]
      /\ want = [k \in Keys |-> Unbound] /\ reloads = 0 /\ faults = 0 /\ lost = {}
  BY DEF Init
<1>2. proc \in [Railmuxes -> ProcType] /\ \A p \in Railmuxes : proc[p].at = "off" /\ ~proc[p].reg /\ proc[p].todo = {}
  <2>1. PICK n : n = NoProcess OBVIOUS
  <2>2. n \in ProcType /\ n.at = "off" /\ ~n.reg /\ n.todo = {} BY <2>1, NoneType DEF NoProcess
  <2>3. QED BY <1>1, <2>1, <2>2
<1>3. Unbound \in Users /\ Unbound \in 0 .. reloads /\ reloads \in 0 .. MaxReloads /\ faults \in 0 .. MaxFaults
  BY <1>1, NameFacts
<1>4. Registered = {} BY <1>2 DEF Registered, At
<1>5. \A p \in Railmuxes : ProcessOK(p)
  BY <1>1, <1>2, NameFacts DEF ProcessOK, HolderOK, Working
<1>6. /\ key \in [Keys -> [tok : Tokens \cup {None}, val : Users]]
      /\ \A k \in Keys : key[k].val = Unbound
      /\ file \in Lease \cup {None} /\ NoOrphan /\ FileOK
  <2>1. CASE file = None /\ key = [k \in Keys |-> Free(Unbound)]
    BY <1>1, <1>3, <2>1 DEF Free, NoOrphan, FileOK
  <2>2. CASE \E t \in Tokens, S \in SUBSET Core :
               /\ file = Old(t, "installing") \/ file = Old(t, "active")
               /\ key = [k \in Keys |-> [tok |-> IF k \in S THEN t ELSE None, val |-> Unbound]]
    <3>1. PICK t \in Tokens, S \in SUBSET Core :
               /\ file = Old(t, "installing") \/ file = Old(t, "active")
               /\ key = [k \in Keys |-> [tok |-> IF k \in S THEN t ELSE None, val |-> Unbound]]
      BY <2>2
    <3>2. /\ key \in [Keys -> [tok : Tokens \cup {None}, val : Users]]
          /\ \A k \in Keys : /\ key[k].val = Unbound
                             /\ key[k].tok # None => key[k].tok = t /\ k \in Core
      BY <1>3, <3>1
    <3>3. /\ file \in Lease /\ file.token = t /\ file.managed = {}
          /\ file.backup = [k \in Keys |-> Unbound]
      <4>1. PICK o : o = [k \in Keys |-> Unbound] OBVIOUS
      <4>2. o \in [Keys -> Users] BY <1>3, <4>1
      <4>3. ASSUME NEW ph \in {"installing", "active"}, file = Old(t, ph)
            PROVE  file \in Lease /\ file.token = t /\ file.managed = {} /\ file.backup = o
        <5>1. file = [token |-> t, phase |-> ph, old |-> TRUE, owners |-> {},
                      backup |-> o, managed |-> {}]
          BY <4>1, <4>3 DEF Old
        <5>2. QED BY <4>2, <5>1 DEF Lease
      <4>4. QED BY <3>1, <4>1, <4>3
    <3>4. NoOrphan BY <3>2, <3>3, NameFacts DEF NoOrphan, Managed
    <3>5. FileOK BY <1>3, <3>2, <3>3, NameFacts DEF FileOK, Carried, Dated
    <3>6. QED BY <3>2, <3>3, <3>4, <3>5
  <2>3. QED BY <2>1, <2>2 DEF Init
<1>7. DataOK
  BY <1>1, <1>3, <1>6 DEF DataOK
<1>8. RegisteredOK BY <1>4 DEF RegisteredOK
<1>9. pane \in [Railmuxes -> {"unborn", "live", "dead"}] BY <1>1
<1>10. lock \in Railmuxes \cup {None} BY <1>1
<1>11. QED BY <1>2, <1>5, <1>7, <1>8, <1>9, <1>10 DEF LeaseInv

LEMMA StepInv ==
    ASSUME LeaseInv, NEW p \in Railmuxes, Step(p) \/ Start(p) \/ Exit(p) \/ Kill(p)
    PROVE  LeaseInv'
<1>1. ASSUME Open(p) \/ Upgrade(p) \/ Undo(p) \/ Decide(p) \/ FailClosed(p) \/ Prepare(p)
             \/ Decline(p) \/ Drop(p)
      PROVE LeaseInv'
  BY <1>1, OpenInv, UpgradeInv, UndoInv, DecideInv, FailClosedInv, PrepareInv, DeclineInv, DropInv
<1>2. ASSUME Activate(p) \/ Control(p) \/ Join(p) \/ Joined(p) \/ Remove(p)
             \/ CloseUnlocked(p) \/ Close(p) \/ Leave(p)
      PROVE LeaseInv'
  BY <1>2, ActivateInv, ControlInv, JoinInv, JoinedInv, RemoveInv, CloseUnlockedInv, CloseInv, LeaveInv
<1>3. ASSUME NEW k \in Keys, SetKey(p, k) \/ RestoreKey(p, k) PROVE LeaseInv'
  BY <1>3, SetKeyInv, RestoreKeyInv
<1>4. ASSUME Start(p) \/ Exit(p) \/ Kill(p) PROVE LeaseInv'
  BY <1>4, StartInv, GoneInv DEF Exit, Kill
<1>5. QED BY <1>1, <1>2, <1>3, <1>4 DEF Step

LEMMA NextInv == LeaseInv /\ [Next]_vars => LeaseInv'
<1>1. CASE UNCHANGED vars
  <2> SUFFICES ASSUME LeaseInv PROVE LeaseInv' BY <1>1
  <2>1. UNCHANGED <<lost, key, file, opt, lock, pane, proc, want, reloads, faults>>
    BY <1>1 DEF vars
  <2>2. Registered' = Registered BY <2>1 DEF Registered, At
  <2>3. DataOK' BY <2>1, InvFacts DEF DataOK, NoOrphan, Managed, FileOK, Carried, Dated
  <2>4. RegisteredOK' BY <2>1, <2>2, InvFacts DEF RegisteredOK, BoundOrNewer
  <2>5. ASSUME NEW q \in Railmuxes PROVE ProcessOK(q)'
    <3>1. PICK a : a = proc[q] OBVIOUS
    <3>2. HolderOK(q, a) => HolderOK(q, a)'
      BY <2>1, <2>2 DEF HolderOK, Carried, Dated, Covers, BoundOrNewer, Rooted
    <3>3. QED BY <2>1, <3>1, <3>2, InvFacts DEF ProcessOK
  <2>6. QED BY <2>1, <2>3, <2>4, <2>5, InvFacts DEF LeaseInv
<1>2. QED BY <1>1, StepInv, ReloadInv DEF Next

LEMMA LeaseAlways == Spec => []LeaseInv
BY InitInv, NextInv, PTL DEF Spec

\* The steps of processes add keys to the misread ones, and only a reload removes some.
LEMMA MisreadSteps ==
    ASSUME NEW p \in Railmuxes, Step(p) \/ Start(p) \/ Exit(p) \/ Kill(p)
    PROVE  misread \subseteq misread' /\ (misread \subseteq Keys => misread' \subseteq Keys)
<1>1. ASSUME NEW X, NEW Y, X \subseteq Keys, misread' = misread \cup Mistaken(X \cap Y) PROVE
        misread \subseteq misread' /\ (misread \subseteq Keys => misread' \subseteq Keys)
  BY <1>1 DEF Mistaken
<1>2. ASSUME Upgrade(p) PROVE \/ misread' = misread
        \/ \E S \in SUBSET Keys : \E m : misread' = misread \cup Mistaken(S \cap m)
  BY <1>2, NameFacts DEF Upgrade
<1>3. ASSUME Decide(p) PROVE \/ misread' = misread
        \/ \E S \in SUBSET Keys : \E m : misread' = misread \cup Mistaken(S \cap m)
  BY <1>3, Zenon DEF Decide
<1>4. ASSUME Prepare(p) PROVE \/ misread' = misread
        \/ \E S \in SUBSET Keys : \E m : misread' = misread \cup Mistaken(S \cap m)
  BY <1>4, PrepareSteps
<1>5. ASSUME \/ Open(p) \/ FailClosed(p) \/ Decline(p) \/ Undo(p) \/ Drop(p) \/ Activate(p)
             \/ Control(p) \/ Join(p) \/ Joined(p) \/ Remove(p) \/ CloseUnlocked(p) \/ Close(p)
             \/ Leave(p) \/ Start(p) \/ Gone(p) \/ \E k \in Keys : SetKey(p, k) \/ RestoreKey(p, k)
      PROVE  misread' = misread
  BY <1>5 DEF Open, FailClosed, Decline, Undo, Drop, Activate, Control, Join, Joined, Remove,
     CloseUnlocked, Close, Leave, Start, Gone, SetKey, RestoreKey
<1>6. \/ misread' = misread
      \/ \E S \in SUBSET Keys : \E m : misread' = misread \cup Mistaken(S \cap m)
  BY <1>2, <1>3, <1>4, <1>5 DEF Step, Exit, Kill
<1>7. QED BY <1>1, <1>6

LEMMA MisreadAlways == Spec => [](misread \in SUBSET Keys)
<1>1. Init => misread \in SUBSET Keys BY DEF Init
<1>2. misread \in SUBSET Keys /\ [Next]_vars => (misread \in SUBSET Keys)'
  <2> SUFFICES ASSUME misread \in SUBSET Keys, [Next]_vars PROVE misread' \in SUBSET Keys OBVIOUS
  <2>1. (\E S \in SUBSET Keys : Reload(S)) \/ UNCHANGED vars => misread' \in SUBSET Keys
    BY DEF Reload, vars
  <2>2. QED BY <2>1, MisreadSteps DEF Next
<1>3. QED BY <1>1, <1>2, PTL DEF Spec

-----------------------------------------------------------------------------
(* The theorems *)

\* Every variable is of its type, whatever is killed, fails or is reloaded.
THEOREM LeaseTypes == Spec => []TypeOK
<1>1. LeaseInv /\ misread \in SUBSET Keys => TypeOK BY DEF LeaseInv, DataOK, TypeOK
<1>2. QED BY <1>1, LeaseAlways, MisreadAlways, PTL

\* No wrapper is orphaned: one that is in the key tables belongs to the lease in the
\* file, or the command that should have restored its key failed.
THEOREM NoneOrphaned == Spec => []NoOrphan
<1>1. LeaseInv => NoOrphan BY DEF LeaseInv, DataOK
<1>2. QED BY <1>1, LeaseAlways, PTL

\* Who was told that its keys are bound is an owner of the lease, and its core keys
\* carry the lease's wrappers until the user takes them back.
THEOREM OwnersKeepLease == Spec => []RegisteredHasLease
<1>1. LeaseInv => RegisteredHasLease
  BY DEF LeaseInv, RegisteredOK, RegisteredHasLease, BoundOrNewer
<1>2. QED BY <1>1, LeaseAlways, PTL

-----------------------------------------------------------------------------
(* What the user configured last *)

\* Of the steps of a process only these are about to bind keys.
LEMMA ToBinding ==
    ASSUME LeaseInv, NEW p \in Railmuxes, Step(p) \/ Start(p) \/ Exit(p) \/ Kill(p),
           proc'[p].at \in Binding
    PROVE  Decide(p) \/ Prepare(p) \/ Undo(p) \/ Drop(p) \/ \E k \in Keys : SetKey(p, k)
<1>1. ASSUME NEW b, proc'[p] = b, b.at \in {"off", "up", "closed", "decide", "upgrade", "prepare",
             "control", "join", "joined", "restore", "leave"}
      PROVE FALSE
  BY <1>1 DEF Binding
<1>2. ASSUME NEW st \in Lease, NEW l \in {"prepare", "up", "closed"}, RestoreThen(p, st, l)
      PROVE FALSE
  BY <1>1, <1>2, RestoreThenStep DEF Stepped
<1>3. ASSUME NEW st \in Lease \cup {None},
             NEW l \in {"decide", "upgrade", "prepare", "control", "join", "leave"},
             GotoWith(p, l, st)
      PROVE FALSE
  BY <1>1, <1>3, GotoWithStep DEF Stepped, Labels
<1>4. ASSUME NEW l \in {"up", "prepare", "joined"}, Goto(p, l) PROVE FALSE
  BY <1>1, <1>4, GotoStep DEF Stepped, Labels
<1>5. ASSUME NEW l \in {"up", "closed"}, NEW r \in BOOLEAN, Over(p, l, r) PROVE FALSE
  BY <1>1, <1>5, OverStep DEF Stepped
<1>6. PICK a : a = proc[p] OBVIOUS
<1>7. a \in ProcType BY <1>6, InvFacts
<1>8. ~Open(p)
  <2> SUFFICES ASSUME Open(p) PROVE FALSE OBVIOUS
  <2>1. PICK l \in {"prepare", "upgrade", "decide"} :
             proc' = [proc EXCEPT ![p].live = Live, ![p].st = file, ![p].at = l]
    BY DEF Open
  <2>2. proc'[p] = [a EXCEPT !.live = Live, !.st = file, !.at = l] BY <1>6, <2>1, InvFacts
  <2>3. proc'[p].at = l BY <1>7, <2>2 DEF ProcType
  <2>4. QED BY <1>1, <2>3
<1>9. a.at \in Working \ {"prepare"} => a.st \in Lease
  BY <1>6, HolderFacts DEF HolderOK
<1>10. ~Upgrade(p)
  <2> SUFFICES ASSUME Upgrade(p) PROVE FALSE OBVIOUS
  <2>1. Refused(p) \/ \E u : proc' = [proc EXCEPT ![p].at = "decide", ![p].st = u]
    BY Zenon DEF Upgrade, GotoWith
  <2>2. ~Refused(p) BY <1>5 DEF Refused
  <2>3. PICK u : proc' = [proc EXCEPT ![p].at = "decide", ![p].st = u] BY <2>1, <2>2
  <2>4. proc'[p] = [a EXCEPT !.at = "decide", !.st = u] BY <1>6, <2>3, InvFacts
  <2>5. proc'[p].at = "decide" BY <1>7, <2>4 DEF ProcType
  <2>6. QED BY <1>1, <2>5
<1>11. ~FailClosed(p) /\ ~Decline(p) BY <1>5 DEF FailClosed, Decline, Refused
<1>12. ~Activate(p)
  <2> SUFFICES ASSUME Activate(p) PROVE FALSE OBVIOUS
  <2>1. a.at = "set" BY <1>6 DEF Activate, At
  <2>2. a.st \in Lease BY <1>9, <2>1 DEF Working, Labels
  <2>3. PICK st : st = [a.st EXCEPT !.phase = "active"] OBVIOUS
  <2>4. st \in Lease BY <2>2, <2>3 DEF Lease
  <2>5. GotoWith(p, "control", st) \/ RestoreThen(p, st, "up") \/ Refused(p) \/ GotoWith(p, "join", st)
    BY <1>6, <2>3, Zenon DEF Activate, Save
  <2>6. QED BY <1>2, <1>3, <1>5, <2>4, <2>5 DEF Refused
<1>13. ~Control(p)
  <2> SUFFICES ASSUME Control(p) PROVE FALSE OBVIOUS
  <2>1. a.at = "control" BY <1>6 DEF Control, At
  <2>2. a.st \in Lease BY <1>9, <2>1 DEF Working, Labels
  <2>3. Over(p, "up", TRUE) \/ RestoreThen(p, a.st, "up") BY <1>6, Zenon DEF Control
  <2>4. QED BY <1>2, <1>5, <2>2, <2>3
<1>14. ~Join(p) BY <1>4, <1>5 DEF Join, Refused
<1>15. ~Joined(p) BY <1>5 DEF Joined, Refused
<1>16. ~Remove(p)
  <2> SUFFICES ASSUME Remove(p) PROVE FALSE OBVIOUS
  <2>1. a.at = "restore" BY <1>6 DEF Remove, At
  <2>2. a.then \in {"prepare", "up", "closed"} BY <1>6, <2>1, RestoringFacts
  <2>3. Goto(p, "prepare") \/ (a.then # "prepare" /\ Over(p, a.then, FALSE)) BY <1>6 DEF Remove
  <2>4. QED BY <1>4, <1>5, <2>2, <2>3
<1>17. ~CloseUnlocked(p)
  <2> SUFFICES ASSUME CloseUnlocked(p) PROVE FALSE OBVIOUS
  <2>1. proc'[p] = [NoProcess EXCEPT !.at = "closed"] BY InvFacts DEF CloseUnlocked
  <2>2. proc'[p].at = "closed" BY <2>1 DEF NoProcess
  <2>3. QED BY <1>1, <2>2
<1>18. ~Close(p)
  <2> SUFFICES ASSUME Close(p) PROVE FALSE OBVIOUS
  <2>1. PICK st : st = [file EXCEPT !.owners = Rest(file, p)] OBVIOUS
  <2>2. file \in Lease BY InvFacts DEF Close, DataOK
  <2>3. st \in Lease BY <2>1, <2>2 DEF Rest, Lease
  <2>4. GotoWith(p, "leave", st) \/ RestoreThen(p, st, "closed") BY <2>1, Zenon DEF Close
  <2>5. QED BY <1>2, <1>3, <2>3, <2>4
<1>19. ~Leave(p) BY <1>5 DEF Leave
<1>20. ASSUME NEW k \in Keys, RestoreKey(p, k) PROVE FALSE
  <2>1. a.at = "restore" /\ proc' = [proc EXCEPT ![p].todo = @ \ {k}]
    BY <1>6, <1>20 DEF RestoreKey, At
  <2>2. proc'[p] = [a EXCEPT !.todo = @ \ {k}] BY <1>6, <2>1, InvFacts
  <2>3. proc'[p].at = "restore" BY <1>7, <2>1, <2>2 DEF ProcType
  <2>4. QED BY <1>1, <2>3
<1>21. ~Start(p) BY <1>4 DEF Start
<1>22. ~Exit(p) /\ ~Kill(p)
  <2> SUFFICES ASSUME Gone(p) PROVE FALSE BY DEF Exit, Kill
  <2>1. proc'[p] = NoProcess BY InvFacts DEF Gone
  <2>2. proc'[p].at = "off" BY <2>1 DEF NoProcess
  <2>3. QED BY <1>1, <2>2
<1>23. QED
  BY <1>8, <1>10, <1>11, <1>12, <1>13, <1>14, <1>15, <1>16, <1>17, <1>18, <1>19, <1>20, <1>21, <1>22
  DEF Step

\* The step of one process is no step of another.
LEMMA OthersStay ==
    ASSUME LeaseInv, NEW p \in Railmuxes, Step(p) \/ Start(p) \/ Exit(p) \/ Kill(p),
           NEW q \in Railmuxes, q # p
    PROVE  proc'[q] = proc[q]
<1>1. ASSUME NEW st, NEW l, GotoWith(p, l, st) \/ RestoreThen(p, st, l) PROVE proc'[q] = proc[q]
  BY <1>1, InvFacts DEF GotoWith, RestoreThen
<1>2. ASSUME NEW l, NEW r, Goto(p, l) \/ Over(p, l, r) PROVE proc'[q] = proc[q]
  BY <1>2, InvFacts DEF Goto, Over
<1>3. Refused(p) => proc'[q] = proc[q] BY <1>2 DEF Refused
<1>4. ASSUME Open(p) \/ FailClosed(p) PROVE proc'[q] = proc[q]
  BY <1>1, <1>3, <1>4, InvFacts DEF Open, FailClosed
<1>5. ASSUME Upgrade(p) PROVE proc'[q] = proc[q]
  <2>1. Refused(p) \/ \E u : GotoWith(p, "decide", u) BY <1>5, Zenon DEF Upgrade
  <2>2. QED BY <1>1, <1>3, <2>1
<1>6. ASSUME Decide(p) PROVE proc'[q] = proc[q]
  <2>1. \/ \E st : GotoWith(p, "join", st) \/ RestoreThen(p, st, "prepare")
        \/ \E st : proc' = [proc EXCEPT ![p].at = "set", ![p].st = st,
                                         ![p].todo = Managed(st), ![p].fresh = FALSE]
    BY <1>6, Zenon DEF Decide
  <2>2. QED BY <1>1, <2>1, InvFacts
<1>7. ASSUME Prepare(p) PROVE proc'[q] = proc[q]
  <2>1. \/ Refused(p)
        \/ \E st, m : proc' = [proc EXCEPT ![p].at = "set", ![p].st = st,
                                            ![p].todo = Core \cup m, ![p].fresh = TRUE]
    BY <1>7, PrepareSteps, Zenon
  <2>2. QED BY <1>3, <2>1, InvFacts
<1>8. ASSUME Decline(p) \/ Drop(p) \/ Activate(p) \/ Control(p) \/ Join(p) \/ Joined(p) \/ Undo(p)
      PROVE  proc'[q] = proc[q]
  BY <1>1, <1>2, <1>3, <1>8, InvFacts DEF Decline, Drop, Activate, Save, Control, Join, Joined, Undo
<1>9. ASSUME Remove(p) \/ CloseUnlocked(p) \/ Close(p) \/ Leave(p) \/ Start(p) \/ Gone(p)
      PROVE  proc'[q] = proc[q]
  BY <1>1, <1>2, <1>9, InvFacts DEF Remove, CloseUnlocked, Close, Leave, Start, Gone
<1>10. ASSUME NEW k, SetKey(p, k) \/ RestoreKey(p, k) PROVE proc'[q] = proc[q]
  BY <1>1, <1>3, <1>10, InvFacts DEF SetKey, RestoreKey
<1>11. QED BY <1>4, <1>8, <1>9, <1>10, <1>5, <1>6, <1>7 DEF Step, Exit, Kill

\* More may be misread than before, and the user wants what he wanted.
LEMMA StillAuthorized ==
    ASSUME misread \subseteq misread', want' = want, NEW k, NEW v, Authorized(k, v)
    PROVE  Authorized(k, v)'
BY DEF Authorized

\* What a process reads of a key is what the key may do, once it has counted the keys
\* that it could not read.
LEMMA ReadAuthorized ==
    ASSUME NewestAuthority, NEW k \in Keys, NEW S, want' = want,
           misread \subseteq misread', k \in S => Mistaken({k}) \subseteq misread',
           NEW v, v = Read(S, k).val
    PROVE  Authorized(k, v)'
<1>1. Authorized(k, key[k].val) BY DEF NewestAuthority
<1>2. CASE k \notin S
  <2>1. Read(S, k).val = key[k].val BY <1>2 DEF Read
  <2>2. QED BY <1>1, <2>1 DEF Authorized
<1>3. CASE k \in S
  <2>1. Read(S, k).val = Unbound BY <1>3 DEF Read, Free
  <2>2. CASE key[k].val = Unbound BY <1>1, <2>1, <2>2 DEF Authorized
  <2>3. CASE key[k].val # Unbound
    <3>1. k \in misread' BY <1>3, <2>3 DEF Mistaken
    <3>2. QED BY <2>1, <3>1 DEF Authorized
  <2>4. QED BY <2>2, <2>3
<1>4. QED BY <1>2, <1>3

\* The steps of processes bind a key to what it may do and leave the user's wish alone.
LEMMA ValuesStay ==
    ASSUME LeaseInv, Current, NEW p \in Railmuxes, Step(p) \/ Start(p) \/ Exit(p) \/ Kill(p)
    PROVE  want' = want /\ NewestAuthority'
<1>1. want' = want
  BY DEF Step, Open, Upgrade, Decide, FailClosed, Prepare, Decline, Drop, Activate, Control, Join,
     Joined, Undo, Remove, CloseUnlocked, Close, Leave, Start, Exit, Kill, Gone, SetKey, RestoreKey
<1>2. PICK a : a = proc[p] OBVIOUS
<1>3. key \in [Keys -> [tok : Tokens \cup {None}, val : Users]] BY InvFacts DEF DataOK
<1>4. \A k \in Keys : Authorized(k, key[k].val) BY DEF Current, NewestAuthority
<1>5. ASSUME NEW k \in Keys, SetKey(p, k) PROVE \A j \in Keys : Authorized(j, key'[j].val)
  <2>1. a.at = "set" /\ k \in a.todo BY <1>2, <1>5 DEF SetKey, At, FirstKeys
  <2>2. Authorized(k, a.st.backup[k]) BY <1>2, <2>1 DEF Current, Binding
  <2>3. key' = key \/ key' = [key EXCEPT ![k] = Wrapper(a.st, k)] BY <1>2, <1>5 DEF SetKey
  <2>4. Wrapper(a.st, k).val = a.st.backup[k] BY DEF Wrapper
  <2>5. QED BY <1>3, <1>4, <2>2, <2>3, <2>4
<1>6. ASSUME NEW k \in Keys, Restore(p, k), Carried(a.st)
      PROVE  \A j \in Keys : Authorized(j, key'[j].val)
  <2>1. key' = key \/ key' = [key EXCEPT ![k] = Restored(a.st, k)] BY <1>2, <1>6 DEF Restore
  <2>2. Restored(a.st, k).val = key[k].val BY <1>6 DEF Restored, Carried, Free
  <2>3. \A j \in Keys : key'[j].val = key[j].val BY <1>3, <2>1, <2>2
  <2>4. QED BY <1>4, <2>3
<1>7. ASSUME NEW k \in Keys, RestoreKey(p, k) PROVE \A j \in Keys : Authorized(j, key'[j].val)
  <2>1. a.at = "restore" BY <1>2, <1>7 DEF RestoreKey, At
  <2>2. Carried(a.st) BY <1>2, <2>1, RestoringFacts
  <2>3. QED BY <1>6, <1>7, <2>2 DEF RestoreKey
<1>8. ASSUME Undo(p) PROVE \A j \in Keys : Authorized(j, key'[j].val)
  <2>1. a.at = "undo" BY <1>2, <1>8 DEF Undo, At
  <2>2. Carried(a.st) /\ a \in ProcType BY <1>2, <2>1, BindingFacts DEF Bound, Binding
  <2>3. PICK k \in a.bad : Restore(p, k) BY <1>2, <1>8 DEF Undo
  <2>4. k \in Keys BY <2>2, NameFacts DEF ProcType
  <2>5. QED BY <1>6, <2>2, <2>3, <2>4
<1>9. ASSUME \/ Open(p) \/ Upgrade(p) \/ Decide(p) \/ FailClosed(p) \/ Prepare(p) \/ Decline(p)
             \/ Drop(p) \/ Activate(p) \/ Control(p) \/ Join(p) \/ Joined(p) \/ Remove(p)
             \/ CloseUnlocked(p) \/ Close(p) \/ Leave(p) \/ Start(p) \/ Gone(p)
      PROVE  key' = key
  BY <1>9 DEF Open, Upgrade, Decide, FailClosed, Prepare, Decline, Drop, Activate, Control, Join,
     Joined, Remove, CloseUnlocked, Close, Leave, Start, Gone
<1>10. \A j \in Keys : Authorized(j, key'[j].val)
  BY <1>5, <1>7, <1>8, <1>9, <1>4 DEF Step, Exit, Kill
<1>11. misread \subseteq misread' BY MisreadSteps
<1>12. QED BY <1>1, <1>10, <1>11 DEF NewestAuthority, Authorized

\* What is about to be bound is what was captured, by this step or before.
LEMMA TodoCurrent ==
    ASSUME LeaseInv, Current, NEW p \in Railmuxes, Step(p) \/ Start(p) \/ Exit(p) \/ Kill(p),
           proc'[p].at \in Binding
    PROVE  \A k \in proc'[p].todo : Authorized(k, proc[p].st.backup[k])'
<1>1. PICK a : a = proc[p] OBVIOUS
<1>2. a \in ProcType BY <1>1, InvFacts
<1>3. want' = want /\ misread \subseteq misread' BY ValuesStay, MisreadSteps
<1>4. NewestAuthority BY DEF Current
<1>5. a.at \in Binding => \A k \in a.todo : Authorized(k, a.st.backup[k])'
  BY <1>1, <1>3, StillAuthorized DEF Current
<1>6. CASE Decide(p)
  <2>1. PICK st : st = Pruned(a.st, a.live) OBVIOUS
  <2>2. a.at = "decide" BY <1>1, <1>6 DEF Decide, At
  <2>3. st \in Lease /\ Carried(st) BY <1>1, <2>1, <2>2, DecideFacts
  <2>4. PICK S \in SUBSET Keys :
          \/ /\ Good(st, S) /\ st.phase = "installing"
             /\ proc' = [proc EXCEPT ![p].at = "set", ![p].st = st,
                                     ![p].todo = Managed(st), ![p].fresh = FALSE]
             /\ misread' = misread \cup Mistaken(S \cap Managed(st))
          \/ GotoWith(p, "join", st) \/ RestoreThen(p, st, "prepare")
    BY <1>1, <1>6, <2>1, Zenon DEF Decide
  <2>5. "join" \in Labels /\ st \in Lease \cup {None} BY <2>3 DEF Labels
  <2>6. ~GotoWith(p, "join", st) BY <2>5, GotoWithStep DEF Stepped, Binding
  <2>7. ~RestoreThen(p, st, "prepare") BY <2>3, RestoreThenStep DEF Stepped, Binding
  <2>8. /\ Safe(st, S) /\ misread' = misread \cup Mistaken(S \cap Managed(st))
        /\ proc'[p] = [a EXCEPT !.at = "set", !.st = st, !.todo = Managed(st), !.fresh = FALSE]
    BY <1>1, <2>4, <2>6, <2>7, InvFacts DEF Good
  <2>9. proc'[p].st = st /\ proc'[p].todo = Managed(st) BY <1>2, <2>8 DEF ProcType
  <2>10. ASSUME NEW k \in Managed(st) PROVE Authorized(k, st.backup[k])'
    <3>1. k \in Keys BY <2>3, NameFacts DEF Managed, Lease
    <3>2. Read(S, k) = Free(st.backup[k]) \/ Read(S, k).tok = st.token BY <2>8 DEF Safe
    <3>3. k \in S => Mistaken({k}) \subseteq misread' BY <2>8 DEF Mistaken
    <3>4. ASSUME NEW v, v = Read(S, k).val PROVE Authorized(k, v)'
      BY <1>3, <1>4, <3>1, <3>3, <3>4, ReadAuthorized
    <3>5. st.token # None BY <2>3, NameFacts DEF Lease
    <3>6. Read(S, k) = key[k] \/ Read(S, k).tok = None BY DEF Read, Free
    <3>7. Read(S, k).val = st.backup[k] BY <2>3, <3>1, <3>2, <3>5, <3>6 DEF Free, Carried
    <3>8. QED BY <3>4, <3>7
  <2>11. QED BY <2>9, <2>10 DEF Authorized
<1>7. CASE Prepare(p)
  <2>1. ~Refused(p) BY OverStep DEF Refused, Stepped, Binding
  <2>2. PICK S \in SUBSET Keys, t \in Tokens :
          \E m \in SUBSET Optionals(S) : \E st :
            /\ Fresh(p, st, t, m, S)
            /\ proc' = [proc EXCEPT ![p].at = "set", ![p].st = st,
                                    ![p].todo = Core \cup m, ![p].fresh = TRUE]
            /\ misread' = misread \cup Mistaken(S \cap (Core \cup m))
    BY <1>7, <2>1, PrepareSteps
  <2>3. PICK m \in SUBSET Optionals(S) : \E st :
          /\ Fresh(p, st, t, m, S)
          /\ proc' = [proc EXCEPT ![p].at = "set", ![p].st = st,
                                  ![p].todo = Core \cup m, ![p].fresh = TRUE]
          /\ misread' = misread \cup Mistaken(S \cap (Core \cup m))
    BY <2>2
  <2>4. PICK st :
          /\ Fresh(p, st, t, m, S)
          /\ proc' = [proc EXCEPT ![p].at = "set", ![p].st = st,
                                  ![p].todo = Core \cup m, ![p].fresh = TRUE]
          /\ misread' = misread \cup Mistaken(S \cap (Core \cup m))
    BY <2>3
  <2>5. proc'[p] = [a EXCEPT !.at = "set", !.st = st, !.todo = Core \cup m, !.fresh = TRUE]
    BY <1>1, <2>4, InvFacts
  <2>6. proc'[p].st = st /\ proc'[p].todo = Core \cup m BY <1>2, <2>5 DEF ProcType
  <2>7. ASSUME NEW k \in Core \cup m PROVE Authorized(k, st.backup[k])'
    <3>1. k \in Keys /\ st.backup[k] = Read(S, k).val
      <4>1. k \in Keys BY NameFacts DEF Optionals
      <4>2. QED BY <2>4, <4>1 DEF Fresh
    <3>2. k \in S => Mistaken({k}) \subseteq misread' BY <2>4 DEF Mistaken
    <3>3. QED BY <1>3, <1>4, <3>1, <3>2, ReadAuthorized
  <2>8. QED BY <2>6, <2>7 DEF Authorized
<1>8. CASE Undo(p)
  <2>1. PICK k \in a.bad :
          proc' = [proc EXCEPT ![p].at = "drop", ![p].bad = {},
                               ![p].todo = @ \ {k}, ![p].st.managed = @ \ {k}]
    BY <1>1, <1>8 DEF Undo
  <2>2. proc'[p] = [a EXCEPT !.at = "drop", !.bad = {}, !.todo = @ \ {k}, !.st.managed = @ \ {k}]
    BY <1>1, <2>1, InvFacts
  <2>3. a.at = "undo" BY <1>1, <1>8 DEF Undo, At
  <2>4. a.st \in Lease BY <1>1, <2>3, BindingFacts DEF Bound, Binding
  <2>5. proc'[p].st.backup = a.st.backup /\ proc'[p].todo \subseteq a.todo
    BY <1>2, <2>2, <2>4 DEF ProcType, Lease
  <2>6. QED BY <1>5, <2>3, <2>5 DEF Binding, Authorized
<1>9. CASE Drop(p)
  <2>1. a.at = "drop" BY <1>1, <1>9 DEF Drop, At
  <2>2. a.st \in Lease BY <1>1, <2>1, BindingFacts DEF Bound, Binding
  <2>3. Goto(p, "set") \/ RestoreThen(p, a.st, "up") \/ Refused(p) BY <1>1, <1>9, Zenon DEF Drop, Save
  <2>4. ~RestoreThen(p, a.st, "up") BY <2>2, RestoreThenStep DEF Stepped, Binding
  <2>5. ~Refused(p) BY OverStep DEF Refused, Stepped, Binding
  <2>6. proc'[p].st = a.st /\ proc'[p].todo = a.todo
    BY <1>1, <2>3, <2>4, <2>5, GotoStep DEF Stepped, Labels
  <2>7. QED BY <1>5, <2>1, <2>6 DEF Binding, Authorized
<1>10. CASE \E k \in Keys : SetKey(p, k)
  <2>1. PICK k \in Keys : SetKey(p, k) BY <1>10
  <2>2. a.at = "set" BY <1>1, <2>1 DEF SetKey, At
  <2>3. a.st \in Lease BY <1>1, <2>2, BindingFacts DEF Bound, Binding
  <2>4. \/ proc' = [proc EXCEPT ![p].todo = @ \ {k}]
        \/ RestoreThen(p, a.st, "up") \/ Refused(p)
        \/ proc' = [proc EXCEPT ![p].at = "undo", ![p].bad = {k}]
    BY <1>1, <2>1, Zenon DEF SetKey
  <2>5. ~RestoreThen(p, a.st, "up") BY <2>3, RestoreThenStep DEF Stepped, Binding
  <2>6. ~Refused(p) BY OverStep DEF Refused, Stepped, Binding
  <2>7. \/ proc'[p] = [a EXCEPT !.todo = @ \ {k}]
        \/ proc'[p] = [a EXCEPT !.at = "undo", !.bad = {k}]
    BY <1>1, <2>4, <2>5, <2>6, InvFacts
  <2>8. ASSUME NEW r, \/ r = [a EXCEPT !.todo = @ \ {k}]
                      \/ r = [a EXCEPT !.at = "undo", !.bad = {k}]
        PROVE  r.st = a.st /\ r.todo \subseteq a.todo
    BY <1>2, <2>8 DEF ProcType
  <2>9. proc'[p].st = a.st /\ proc'[p].todo \subseteq a.todo BY <2>7, <2>8
  <2>10. QED BY <1>5, <2>2, <2>9 DEF Binding, Authorized
<1>11. QED BY <1>6, <1>7, <1>8, <1>9, <1>10, ToBinding

\* Outside Railmux windows each key does what the user configured last, unless a failed
\* query passed it off as unbound, as long as no configuration is loaded inside a
\* transaction (without that it is false).
THEOREM UserWins == ~RacingReload => (Spec => []NewestAuthority)
<1> SUFFICES ASSUME ~RacingReload PROVE Spec => []NewestAuthority OBVIOUS
<1>1. Init => Current
  <2> SUFFICES ASSUME Init PROVE Current OBVIOUS
  <2>1. \A k \in Keys : key[k].val = Unbound /\ want[k] = Unbound BY DEF Init, Free, Old
  <2>2. \A p \in Railmuxes : proc[p] = NoProcess BY DEF Init
  <2>3. NoProcess.at \notin Binding BY DEF NoProcess, Binding
  <2>4. QED BY <2>1, <2>2, <2>3 DEF Current, NewestAuthority, Authorized
<1>2. ASSUME LeaseInv, Current, NEW p \in Railmuxes, Step(p) \/ Start(p) \/ Exit(p) \/ Kill(p)
      PROVE  Current'
  <2>1. want' = want /\ NewestAuthority' /\ misread \subseteq misread'
    BY <1>2, ValuesStay, MisreadSteps
  <2>2. ASSUME NEW q \in Railmuxes, proc'[q].at \in Binding, NEW k \in proc'[q].todo
        PROVE  Authorized(k, proc[q].st.backup[k])'
    <3>1. CASE q = p BY <1>2, <2>2, <3>1, TodoCurrent
    <3>2. CASE q # p
      <4>1. proc'[q] = proc[q] BY <1>2, <3>2, OthersStay
      <4>2. Authorized(k, proc[q].st.backup[k]) BY <1>2, <2>2, <4>1 DEF Current
      <4>3. QED BY <2>1, <4>1, <4>2 DEF Authorized
    <3>3. QED BY <3>1, <3>2
  <2>3. QED BY <2>1, <2>2 DEF Current
<1>3. ASSUME LeaseInv, Current, NEW S \in SUBSET Keys, Reload(S) PROVE Current'
  <2>1. /\ lock = None /\ proc' = proc
        /\ key' = [k \in Keys |-> IF k \in S THEN Free(reloads') ELSE key[k]]
        /\ want' = [k \in Keys |-> IF k \in S THEN reloads' ELSE want[k]]
        /\ misread' = misread \ S
    BY <1>3 DEF Reload
  <2>2. NewestAuthority'
    <3>1. ASSUME NEW k \in Keys PROVE Authorized(k, key[k].val)'
      <4>1. Authorized(k, key[k].val) BY <1>3 DEF Current, NewestAuthority
      <4>2. CASE k \in S BY <2>1, <4>2 DEF Authorized, Free
      <4>3. CASE k \notin S
        <5>1. key'[k] = key[k] /\ want'[k] = want[k] BY <2>1, <4>3
        <5>2. k \in misread => k \in misread' BY <2>1, <4>3
        <5>3. QED BY <4>1, <5>1, <5>2 DEF Authorized
      <4>4. QED BY <4>2, <4>3
    <3>2. QED BY <3>1 DEF NewestAuthority
  <2>3. ASSUME NEW q \in Railmuxes PROVE proc'[q].at \notin Binding
    BY <1>3, <2>1, InvFacts, NameFacts DEF ProcessOK, Working, Binding, Labels
  <2>4. QED BY <2>2, <2>3 DEF Current
<1>4. ASSUME LeaseInv, Current, UNCHANGED vars PROVE Current'
  BY <1>4 DEF vars, Current, NewestAuthority, Authorized
<1>5. LeaseInv /\ Current /\ [Next]_vars => Current' BY <1>2, <1>3, <1>4 DEF Next
<1>6. Current => NewestAuthority BY DEF Current
<1>7. QED BY <1>1, <1>5, <1>6, LeaseAlways, PTL DEF Spec

-----------------------------------------------------------------------------
(* The controller *)

OwnWindows == \A p, q \in Railmuxes : WindowOf[p] = WindowOf[q] => p = q

\* What pruning and handing over leave of another window's option.
LEMMA OptionStays ==
    ASSUME OwnWindows, NEW p \in Railmuxes, NEW q \in Railmuxes, q # p, NEW o \in Options
    PROVE  /\ Unset(o, p)[WindowOf[q]] = o[WindowOf[q]]
           /\ [o EXCEPT ![WindowOf[p]] = p][WindowOf[q]] = o[WindowOf[q]]
           /\ \A S \in SUBSET Railmuxes : \A u \in HandedOver(o, S, p) :
                u[WindowOf[q]] = o[WindowOf[q]]
<1>1. WindowOf[p] # WindowOf[q] /\ WindowOf[p] \in Windows /\ WindowOf[q] \in Windows
  BY DEF OwnWindows, Windows
<1>2. Unset(o, p)[WindowOf[q]] = o[WindowOf[q]] BY <1>1 DEF Unset, Options
<1>3. [o EXCEPT ![WindowOf[p]] = p][WindowOf[q]] = o[WindowOf[q]] BY <1>1 DEF Options
<1>4. ASSUME NEW S \in SUBSET Railmuxes, NEW u \in HandedOver(o, S, p)
      PROVE  u[WindowOf[q]] = o[WindowOf[q]]
  BY <1>1 DEF HandedOver, Options
<1>5. QED BY <1>2, <1>3, <1>4

LEMMA PrunedStays ==
    ASSUME LeaseInv, NEW q \in Railmuxes, NEW st, NEW S, q \in S, opt[WindowOf[q]] = q
    PROVE  PrunedOptions(st, S)[WindowOf[q]] = q
<1>1. WindowOf[q] \in Windows BY DEF Windows
<1>2. QED BY <1>1 DEF PrunedOptions

LEMMA OthersServed ==
    ASSUME LeaseInv, OwnWindows, NEW p \in Railmuxes,
           Step(p) \/ Start(p) \/ Exit(p) \/ Kill(p),
           NEW q \in Registered, q # p, opt[WindowOf[q]] = q
    PROVE  opt'[WindowOf[q]] = q
<1>1. q \in Railmuxes /\ q \in Live BY RegisteredFacts
<1>2. opt \in Options BY CommonFacts
<1>3. PICK a : a = proc[p] OBVIOUS
<1>4. ASSUME Decide(p) \/ FailClosed(p) PROVE opt'[WindowOf[q]] = q
  <2>1. a.at = "decide" /\ opt' = PrunedOptions(a.st, a.live)
    BY <1>3, <1>4 DEF Decide, FailClosed, At
  <2>2. HolderOK(p, a) /\ a.at \in Working BY <1>3, <2>1, HolderFacts DEF Working, Labels
  <2>3. q \in a.live BY <2>1, <2>2 DEF HolderOK
  <2>4. QED BY <1>1, <2>1, <2>3, PrunedStays
<1>5. ASSUME Joined(p) PROVE opt'[WindowOf[q]] = q
  <2>1. a.at = "joined" BY <1>3, <1>5 DEF Joined, At
  <2>2. a.st \in Lease BY <1>3, <2>1, BindingFacts DEF Bound, Joining
  <2>3. a.st.owners \in SUBSET Railmuxes BY <2>2 DEF Lease
  <2>4. PICK u : u = Unset(opt, p) OBVIOUS
  <2>5. u \in Options BY <1>2, <2>4, OptionFacts
  <2>6. opt' = opt \/ opt' \in HandedOver(u, a.st.owners, p) BY <1>3, <1>5, <2>4 DEF Joined
  <2>7. u[WindowOf[q]] = q BY <1>1, <1>2, <2>4, OptionStays
  <2>8. QED BY <1>1, <2>3, <2>5, <2>6, <2>7, OptionStays
<1>6. ASSUME Close(p) PROVE opt'[WindowOf[q]] = q
  <2>1. file \in Lease BY <1>6, InvFacts DEF Close, DataOK
  <2>2. PICK o : o = PrunedOptions(file, Live) OBVIOUS
  <2>3. o \in Options BY <1>2, <2>1, <2>2, OptionFacts
  <2>4. o[WindowOf[q]] = q BY <1>1, <2>2, PrunedStays
  <2>5. PICK u : u = Unset(o, p) OBVIOUS
  <2>6. u \in Options BY <2>3, <2>5, OptionFacts
  <2>7. u[WindowOf[q]] = q BY <1>1, <2>3, <2>4, <2>5, OptionStays
  <2>8. PICK r : r = Rest(file, p) OBVIOUS
  <2>9. r \in SUBSET Railmuxes BY <2>1, <2>8 DEF Rest, Lease
  <2>10. opt' = u \/ opt' \in HandedOver(u, r, p) BY <1>6, <2>2, <2>5, <2>8 DEF Close
  <2>11. QED BY <1>1, <2>6, <2>7, <2>9, <2>10, OptionStays
<1>7. ASSUME CloseUnlocked(p) PROVE opt'[WindowOf[q]] = q
  <2>1. PICK u : u = Unset(opt, p) OBVIOUS
  <2>2. opt' = u BY <1>7, <2>1 DEF CloseUnlocked
  <2>3. u[WindowOf[q]] = q BY <1>1, <1>2, <2>1, OptionStays
  <2>4. QED BY <2>2, <2>3
<1>8. ASSUME Control(p) \/ Join(p) PROVE opt'[WindowOf[q]] = q
  <2>1. opt' = opt \/ opt' = [opt EXCEPT ![WindowOf[p]] = p] BY <1>8 DEF Control, Join
  <2>2. PICK u : u = [opt EXCEPT ![WindowOf[p]] = p] OBVIOUS
  <2>3. u[WindowOf[q]] = q BY <1>1, <1>2, <2>2, OptionStays
  <2>4. QED BY <2>1, <2>2, <2>3
<1>9. ASSUME \/ Open(p) \/ Upgrade(p) \/ Prepare(p) \/ Decline(p) \/ Drop(p) \/ Activate(p)
             \/ Undo(p) \/ Remove(p) \/ Leave(p) \/ Start(p) \/ Gone(p)
             \/ \E k \in Keys : SetKey(p, k) \/ RestoreKey(p, k)
      PROVE  opt'[WindowOf[q]] = q
  BY <1>9 DEF Open, Upgrade, Prepare, Decline, Drop, Activate, Undo, Remove, Leave, Start, Gone,
     SetKey, RestoreKey
<1>10. QED BY <1>4, <1>5, <1>6, <1>7, <1>8, <1>9 DEF Step, Exit, Kill

\* The two steps that register a process.
LEMMA Registers ==
    ASSUME LeaseInv, NEW p \in Railmuxes, Step(p) \/ Start(p) \/ Exit(p) \/ Kill(p),
           p \in Registered'
    PROVE  (Control(p) \/ Joined(p)) /\ Over(p, "up", TRUE)
<1>1. ASSUME NEW b, proc'[p] = b, b.at # "up" \/ ~b.reg PROVE FALSE
  BY <1>1 DEF Registered, At
<1>2. ASSUME NEW st \in Lease, NEW l \in {"prepare", "up", "closed"}, RestoreThen(p, st, l)
      PROVE FALSE
  BY <1>1, <1>2, RestoreThenStep DEF Stepped
<1>3. ASSUME NEW st \in Lease \cup {None}, NEW l \in Labels \ {"up"}, GotoWith(p, l, st)
      PROVE FALSE
  BY <1>1, <1>3, GotoWithStep DEF Stepped
<1>4. ASSUME NEW l \in Labels \ {"up"}, Goto(p, l) PROVE FALSE
  BY <1>1, <1>4, GotoStep DEF Stepped
<1>5. ASSUME NEW l \in {"up", "closed"}, Over(p, l, FALSE) PROVE FALSE
  BY <1>1, <1>5, OverStep DEF Stepped
<1>6. ~Refused(p) BY <1>5 DEF Refused
<1>7. PICK a : a = proc[p] OBVIOUS
<1>8. a \in ProcType BY <1>7, InvFacts
<1>9. a.at \in Working \ {"prepare"} => a.st \in Lease
  BY <1>7, HolderFacts DEF HolderOK
<1>10. ~Open(p)
  <2> SUFFICES ASSUME Open(p) PROVE FALSE OBVIOUS
  <2>1. PICK l \in {"prepare", "upgrade", "decide"} :
             proc' = [proc EXCEPT ![p].live = Live, ![p].st = file, ![p].at = l]
    BY DEF Open
  <2>2. proc'[p] = [a EXCEPT !.live = Live, !.st = file, !.at = l] BY <1>7, <2>1, InvFacts
  <2>3. proc'[p].at = l BY <1>8, <2>2 DEF ProcType
  <2>4. QED BY <1>1, <2>3
<1>11. ~Upgrade(p)
  <2> SUFFICES ASSUME Upgrade(p) PROVE FALSE OBVIOUS
  <2>1. \E u : proc' = [proc EXCEPT ![p].at = "decide", ![p].st = u]
    BY <1>6, Zenon DEF Upgrade, GotoWith
  <2>2. PICK u : proc' = [proc EXCEPT ![p].at = "decide", ![p].st = u] BY <2>1
  <2>3. proc'[p] = [a EXCEPT !.at = "decide", !.st = u] BY <1>7, <2>2, InvFacts
  <2>4. proc'[p].at = "decide" BY <1>8, <2>3 DEF ProcType
  <2>5. QED BY <1>1, <2>4
<1>12. ~Decide(p)
  <2> SUFFICES ASSUME Decide(p) PROVE FALSE OBVIOUS
  <2>1. PICK st : st = Pruned(a.st, a.live) OBVIOUS
  <2>2. a.at = "decide" BY <1>7 DEF Decide, At
  <2>3. st \in Lease BY <1>7, <2>1, <2>2, DecideFacts
  <2>4. \/ proc' = [proc EXCEPT ![p].at = "set", ![p].st = st,
                                ![p].todo = Managed(st), ![p].fresh = FALSE]
        \/ GotoWith(p, "join", st) \/ RestoreThen(p, st, "prepare")
    BY <1>7, <2>1, Zenon DEF Decide
  <2>5. proc' = [proc EXCEPT ![p].at = "set", ![p].st = st, ![p].todo = Managed(st), ![p].fresh = FALSE]
    BY <1>2, <1>3, <2>3, <2>4 DEF Labels
  <2>6. proc'[p] = [a EXCEPT !.at = "set", !.st = st, !.todo = Managed(st), !.fresh = FALSE]
    BY <1>7, <2>5, InvFacts
  <2>7. proc'[p].at = "set" BY <1>8, <2>6 DEF ProcType
  <2>8. QED BY <1>1, <2>7
<1>13. ~FailClosed(p) /\ ~Decline(p) BY <1>6 DEF FailClosed, Decline
<1>14. ~Prepare(p)
  <2> SUFFICES ASSUME Prepare(p) PROVE FALSE OBVIOUS
  <2>1. \E st, m : proc' = [proc EXCEPT ![p].at = "set", ![p].st = st,
                                        ![p].todo = Core \cup m, ![p].fresh = TRUE]
    BY <1>6, PrepareSteps, Zenon
  <2>2. PICK st, m : proc' = [proc EXCEPT ![p].at = "set", ![p].st = st,
                                          ![p].todo = Core \cup m, ![p].fresh = TRUE]
    BY <2>1
  <2>3. proc'[p] = [a EXCEPT !.at = "set", !.st = st, !.todo = Core \cup m, !.fresh = TRUE]
    BY <1>7, <2>2, InvFacts
  <2>4. proc'[p].at = "set" BY <1>8, <2>3 DEF ProcType
  <2>5. QED BY <1>1, <2>4
<1>15. \A k \in Keys : ~SetKey(p, k)
  <2> SUFFICES ASSUME NEW k \in Keys, SetKey(p, k) PROVE FALSE OBVIOUS
  <2>1. a.at = "set" BY <1>7 DEF SetKey, At
  <2>2. a.st \in Lease BY <1>9, <2>1 DEF Working, Labels
  <2>3. \/ proc' = [proc EXCEPT ![p].todo = @ \ {k}]
        \/ RestoreThen(p, a.st, "up") \/ Refused(p)
        \/ proc' = [proc EXCEPT ![p].at = "undo", ![p].bad = {k}]
    BY <1>7, Zenon DEF SetKey
  <2>4. \/ proc'[p] = [a EXCEPT !.todo = @ \ {k}]
        \/ proc'[p] = [a EXCEPT !.at = "undo", !.bad = {k}]
    BY <1>2, <1>6, <1>7, <2>2, <2>3, InvFacts
  <2>5. proc'[p].at \in {"set", "undo"} BY <1>8, <2>1, <2>4 DEF ProcType
  <2>6. QED BY <1>1, <2>5
<1>16. ~Undo(p)
  <2> SUFFICES ASSUME Undo(p) PROVE FALSE OBVIOUS
  <2>1. PICK k \in a.bad :
          proc' = [proc EXCEPT ![p].at = "drop", ![p].bad = {},
                               ![p].todo = @ \ {k}, ![p].st.managed = @ \ {k}]
    BY <1>7 DEF Undo
  <2>2. proc'[p] = [a EXCEPT !.at = "drop", !.bad = {}, !.todo = @ \ {k}, !.st.managed = @ \ {k}]
    BY <1>7, <2>1, InvFacts
  <2>3. proc'[p].at = "drop" BY <1>8, <2>2 DEF ProcType
  <2>4. QED BY <1>1, <2>3
<1>17. ~Drop(p)
  <2> SUFFICES ASSUME Drop(p) PROVE FALSE OBVIOUS
  <2>1. a.at = "drop" BY <1>7 DEF Drop, At
  <2>2. a.st \in Lease BY <1>9, <2>1 DEF Working, Labels
  <2>3. Goto(p, "set") \/ RestoreThen(p, a.st, "up") \/ Refused(p) BY <1>7, Zenon DEF Drop, Save
  <2>4. QED BY <1>2, <1>4, <1>6, <2>2, <2>3 DEF Labels
<1>18. ~Activate(p)
  <2> SUFFICES ASSUME Activate(p) PROVE FALSE OBVIOUS
  <2>1. a.at = "set" BY <1>7 DEF Activate, At
  <2>2. a.st \in Lease BY <1>9, <2>1 DEF Working, Labels
  <2>3. PICK st : st = [a.st EXCEPT !.phase = "active"] OBVIOUS
  <2>4. st \in Lease BY <2>2, <2>3 DEF Lease
  <2>5. GotoWith(p, "control", st) \/ RestoreThen(p, st, "up") \/ Refused(p) \/ GotoWith(p, "join", st)
    BY <1>7, <2>3, Zenon DEF Activate, Save
  <2>6. QED BY <1>2, <1>3, <1>6, <2>4, <2>5 DEF Labels
<1>19. ASSUME Control(p) PROVE Over(p, "up", TRUE)
  <2>1. a.at = "control" BY <1>7, <1>19 DEF Control, At
  <2>2. a.st \in Lease BY <1>9, <2>1 DEF Working, Labels
  <2>3. Over(p, "up", TRUE) \/ RestoreThen(p, a.st, "up") BY <1>7, <1>19, Zenon DEF Control
  <2>4. QED BY <1>2, <2>2, <2>3
<1>20. ~Join(p) BY <1>4, <1>6 DEF Join, Labels
<1>21. ASSUME Joined(p) PROVE Over(p, "up", TRUE) BY <1>6, <1>21 DEF Joined
<1>22. ~Remove(p)
  <2> SUFFICES ASSUME Remove(p) PROVE FALSE OBVIOUS
  <2>1. a.at = "restore" BY <1>7 DEF Remove, At
  <2>2. a.then \in {"prepare", "up", "closed"} BY <1>7, <2>1, RestoringFacts
  <2>3. Goto(p, "prepare") \/ (a.then # "prepare" /\ Over(p, a.then, FALSE)) BY <1>7 DEF Remove
  <2>4. QED BY <1>4, <1>5, <2>2, <2>3 DEF Labels
<1>23. ~CloseUnlocked(p)
  <2> SUFFICES ASSUME CloseUnlocked(p) PROVE FALSE OBVIOUS
  <2>1. proc'[p] = [NoProcess EXCEPT !.at = "closed"] BY InvFacts DEF CloseUnlocked
  <2>2. proc'[p].at = "closed" BY <2>1 DEF NoProcess
  <2>3. QED BY <1>1, <2>2
<1>24. ~Close(p)
  <2> SUFFICES ASSUME Close(p) PROVE FALSE OBVIOUS
  <2>1. PICK st : st = [file EXCEPT !.owners = Rest(file, p)] OBVIOUS
  <2>2. file \in Lease BY InvFacts DEF Close, DataOK
  <2>3. st \in Lease BY <2>1, <2>2 DEF Rest, Lease
  <2>4. GotoWith(p, "leave", st) \/ RestoreThen(p, st, "closed") BY <2>1, Zenon DEF Close
  <2>5. QED BY <1>2, <1>3, <2>3, <2>4 DEF Labels
<1>25. ~Leave(p) BY <1>5 DEF Leave
<1>26. \A k \in Keys : ~RestoreKey(p, k)
  <2> SUFFICES ASSUME NEW k \in Keys, RestoreKey(p, k) PROVE FALSE OBVIOUS
  <2>1. a.at = "restore" BY <1>7 DEF RestoreKey, At
  <2>2. proc'[p] = [a EXCEPT !.todo = @ \ {k}] BY <1>7, InvFacts DEF RestoreKey
  <2>3. proc'[p].at = "restore" BY <1>8, <2>1, <2>2 DEF ProcType
  <2>4. QED BY <1>1, <2>3
<1>27. ~Start(p)
  <2> SUFFICES ASSUME Start(p) PROVE FALSE OBVIOUS
  <2>1. a.at = "off" BY <1>7 DEF Start, At
  <2>2. ~a.reg BY <1>7, <2>1, InvFacts DEF ProcessOK
  <2>3. proc'[p] = [a EXCEPT !.at = "up"] BY <1>7, InvFacts DEF Start, Goto
  <2>4. ~proc'[p].reg BY <1>8, <2>2, <2>3 DEF ProcType
  <2>5. QED BY <1>1, <2>4
<1>28. ~Gone(p)
  <2> SUFFICES ASSUME Gone(p) PROVE FALSE OBVIOUS
  <2>1. proc'[p] = NoProcess BY InvFacts DEF Gone
  <2>2. proc'[p].at = "off" BY <2>1 DEF NoProcess
  <2>3. QED BY <1>1, <2>2
<1>29. QED BY <1>10, <1>11, <1>12, <1>13, <1>14, <1>15, <1>16, <1>17, <1>18, <1>19, <1>20, <1>21,
          <1>22, <1>23, <1>24, <1>25, <1>26, <1>27, <1>28 DEF Step, Exit, Kill

\* A process that a step registers is the controller of its window.
LEMMA NewlyServed ==
    ASSUME LeaseInv, NEW p \in Railmuxes, Step(p) \/ Start(p) \/ Exit(p) \/ Kill(p),
           p \in Registered'
    PROVE  opt'[WindowOf[p]] = p
<1>1. (Control(p) \/ Joined(p)) /\ Over(p, "up", TRUE) BY Registers
<1>2. WindowOf[p] \in Windows /\ opt \in Options BY CommonFacts DEF Windows
<1>3. PICK a : a = proc[p] OBVIOUS
<1>4. proc'[p].reg BY DEF Registered
<1>5. CASE Control(p)
  <2>1. a.at = "control" BY <1>3, <1>5 DEF Control, At
  <2>2. a.st \in Lease BY <1>3, <2>1, BindingFacts DEF Bound
  <2>3. ~RestoreThen(p, a.st, "up")
    <3> SUFFICES ASSUME RestoreThen(p, a.st, "up") PROVE FALSE OBVIOUS
    <3>1. proc'[p].at = "restore" BY <2>2, RestoreThenStep DEF Stepped
    <3>2. QED BY <3>1 DEF Registered, At
  <2>4. opt' = [opt EXCEPT ![WindowOf[p]] = p] BY <1>3, <1>5, <2>3 DEF Control
  <2>5. QED BY <1>2, <2>4 DEF Options
<1>6. CASE Joined(p)
  <2>1. a.at = "joined" BY <1>3, <1>6 DEF Joined, At
  <2>2. a.at \in Working /\ HolderOK(p, a) BY <1>3, <2>1, HolderFacts DEF Working, Labels
  <2>3. opt[WindowOf[p]] = p BY <2>1, <2>2 DEF HolderOK
  <2>4. ~Refused(p)
    <3> SUFFICES ASSUME Refused(p) PROVE FALSE OBVIOUS
    <3>1. proc'[p].reg = FALSE BY OverStep DEF Refused, Stepped
    <3>2. QED BY <1>4, <3>1
  <2>5. opt' = opt BY <1>6, <2>4 DEF Joined
  <2>6. QED BY <2>3, <2>5
<1>7. QED BY <1>1, <1>5, <1>6

\* F8 reaches a registered process from its window, which no other process shares: the
\* steps of the others leave the option of the window alone.  (In a shared window a process
\* that closes may hand the option to one that is gone: bindings_one_window.)
THEOREM ControllerStays == OwnWindows => (Spec => []ControllerServed)
<1> SUFFICES ASSUME OwnWindows PROVE Spec => []ControllerServed OBVIOUS
<1>1. Init => Controls
  <2> SUFFICES ASSUME Init PROVE Controls OBVIOUS
  <2>1. \A p \in Railmuxes : proc[p] = NoProcess BY DEF Init
  <2>2. NoProcess.at = "off" BY DEF NoProcess
  <2>3. QED BY <2>1, <2>2 DEF Controls, Registered, At
<1>2. ASSUME LeaseInv, Controls, NEW p \in Railmuxes, Step(p) \/ Start(p) \/ Exit(p) \/ Kill(p)
      PROVE  Controls'
  <2> SUFFICES ASSUME NEW q \in Registered' PROVE opt'[WindowOf[q]] = q BY DEF Controls
  <2>1. q \in Railmuxes BY DEF Registered
  <2>2. CASE q = p BY <1>2, <2>2, NewlyServed
  <2>3. CASE q # p
    <3>1. proc'[q] = proc[q] BY <1>2, <2>1, <2>3, OthersStay
    <3>2. q \in Registered BY <2>1, <3>1 DEF Registered, At
    <3>3. opt[WindowOf[q]] = q BY <1>2, <3>2 DEF Controls
    <3>4. QED BY <1>2, <2>3, <3>2, <3>3, OthersServed
  <2>4. QED BY <2>2, <2>3
<1>3. ASSUME LeaseInv, Controls, (\E S \in SUBSET Keys : Reload(S)) \/ UNCHANGED vars PROVE Controls'
  <2>1. opt' = opt /\ proc' = proc BY <1>3 DEF Reload, vars
  <2>2. QED BY <1>3, <2>1 DEF Controls, Registered, At
<1>4. LeaseInv /\ Controls /\ [Next]_vars => Controls' BY <1>2, <1>3 DEF Next
<1>5. LeaseInv /\ Controls => ControllerServed
  <2> SUFFICES ASSUME LeaseInv, Controls, NEW p \in Registered PROVE opt[WindowOf[p]] # None
    BY DEF ControllerServed
  <2>1. p \in Railmuxes BY DEF Registered
  <2>2. QED BY <2>1, NameFacts DEF Controls
<1>6. QED BY <1>1, <1>4, <1>5, LeaseAlways, PTL DEF Spec

==============================================================================
