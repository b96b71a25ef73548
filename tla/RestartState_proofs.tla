-------------------------- MODULE RestartState_proofs --------------------------
(***************************************************************************)
(* Proofs about RestartState: the types, whose file a window restores, when *)
(* a file may be removed, what a window comes to show, and that files of a  *)
(* newer schema are left alone.                                             *)
(*                                                                         *)
(* The invariant says what a process knows of its files at each phase, in   *)
(* two parts: ProcessOK speaks of the process alone, FilesOK of the files   *)
(* and panes that it relies on and that others change meanwhile.            *)
(***************************************************************************)
EXTENDS RestartState, FiniteSetTheorems, TLAPS

-----------------------------------------------------------------------------
(* The invariant *)

AgentSets == SUBSET Agents
PaneSets == SUBSET Panes
States == Files \union PortableFiles

Apps ==
    [phase : Phases, then : {"up", "discover", "publish"}, shown : Workspaces,
     running : AgentSets, lived : AgentSets, pending : States, loaded : Files,
     source : Panes \union {None}, recovery : {"ok", "pending", "failed"},
     prov : AgentSets, gen : {"none", "new", "tried"},
     mayPortable : BOOLEAN, mayLocal : BOOLEAN,
     dialog : BOOLEAN, soft : BOOLEAN, look : Panes \union {None},
     swept : PaneSets]

\* All that lived at a discovery that succeeded is represented; a local state that
\* waits is the one that was loaded; the file that is to go is on display.
ProcessOK(r) ==
    /\ r \in Apps /\ r.prov \subseteq r.running
    /\ r.recovery = "ok" => r.lived \subseteq r.running
    /\ r.pending \in Instances => r.pending = r.loaded
    /\ r.phase = "unlink" => /\ r.loaded \in Instances /\ r.shown = r.loaded.slots
                             /\ r.lived \subseteq r.running
    /\ r.phase \in {"unlink", "clear"} => r.pending = None

Newer(f) == f # None /\ f.newer
FilesOK(p, r) ==
    /\ r.phase # "off" => pane[p] = "live"
    /\ r.source \notin {None, p} =>
         p \in Managed /\ r.source \in Managed /\ pane[r.source] = "dead"
    /\ r.source # None => ~Newer(file[r.source])
    /\ r.look # None => ~Newer(file[r.look])
    /\ r.phase \notin {"off", "portable"} /\ r.mayPortable => ~Newer(portable)
    /\ r.phase \notin {"off", "portable", "local"} /\ r.mayLocal => ~Newer(file[p])

\* One managed pane at a time; a pane not made yet has no file and is in no handoff.
PanesOK ==
    /\ \A p, q \in Managed : pane[p] = "live" /\ pane[q] = "live" => p = q
    /\ \A p \in Panes : pane[p] = "absent" => file[p] = None
    /\ handoff # None => pane[handoff] # "absent"

DiskOK ==
    /\ pane \in [Panes -> {"absent", "live", "dead"}] /\ alive \in AgentSets
    /\ file \in [Panes -> Files] /\ portable \in PortableFiles
    /\ handoff \in Managed \union {None}

RestartInv ==
    /\ DiskOK /\ PanesOK /\ app \in [Panes -> Apps]
    /\ \A p \in Panes : ProcessOK(app[p]) /\ FilesOK(p, app[p])

-----------------------------------------------------------------------------
(* Lemmas *)

LEMMA InstanceFacts ==
    ASSUME NEW f \in States
    PROVE  /\ f = None \/ f \in Instances \/ f \in Portables
           /\ f \in Instances => IsLocal(f) /\ f.slots \in Workspaces
                                 /\ f.newer \in BOOLEAN /\ f # None
           /\ f \in Portables => ~IsLocal(f) /\ f.right \in Contents \union {None}
                                 /\ f.newer \in BOOLEAN /\ f # None
<1>1. f = None \/ f \in Instances \/ f \in Portables
  BY DEF States, Files, PortableFiles
<1>2. ASSUME f \in Instances
      PROVE  IsLocal(f) /\ f.slots \in Workspaces /\ f.newer \in BOOLEAN /\ f # None
  <2>1. DOMAIN f = {"slots", "right", "bindings", "newer", "week"} BY <1>2 DEF Instances
  <2>2. f.slots \in Workspaces /\ f.newer \in BOOLEAN BY <1>2 DEF Instances
  <2>3. QED BY <1>2, <2>1, <2>2, DistinctAssumption DEF IsLocal
<1>3. ASSUME f \in Portables
      PROVE  /\ ~IsLocal(f) /\ f.right \in Contents \union {None}
             /\ f.newer \in BOOLEAN /\ f # None
  <2>1. DOMAIN f = {"right", "newer"} BY <1>3 DEF Portables
  <2>2. f.right \in Contents \union {None} /\ f.newer \in BOOLEAN
    BY <1>3 DEF Portables
  <2>3. QED BY <1>3, <2>1, <2>2, DistinctAssumption DEF IsLocal
<1>4. QED BY <1>1, <1>2, <1>3

LEMMA ReadableFacts ==
    ASSUME NEW f \in States
    PROVE  /\ Readable(f) <=> f # None /\ ~Newer(f)
           /\ (f = None \/ Readable(f)) <=> ~Newer(f)
BY InstanceFacts DEF Readable, Newer

LEMMA ShutFacts == Shut \in Workspaces /\ Closed \in Contents /\ Empty \in Contents
BY DEF Shut, Workspaces, Contents, Slots

LEMMA SavedFacts ==
    ASSUME NEW w \in Workspaces, NEW x \in Targets(w), NEW b \in AgentSets,
           NEW f, f = Instance(w, x, b, FALSE)
    PROVE  f \in Instances /\ ~Newer(f) /\ f \in Files
<1>1. Saved(w) \in Workspaces
  BY ShutFacts DEF Saved, Workspaces, Slots
<1>2. x \in Contents BY ShutFacts DEF Targets, Workspaces
<1>3. f \in Instances BY <1>1, <1>2 DEF Instance, Instances, AgentSets
<1>4. f.newer = FALSE BY DEF Instance
<1>5. QED BY <1>3, <1>4 DEF Newer, Files

LEMMA PortableFacts ==
    ASSUME NEW x \in Contents \union {None}, NEW f, f = Portable(x, FALSE)
    PROVE  f \in Portables /\ f \in PortableFiles /\ f \in States /\ ~Newer(f)
BY DEF Portable, Portables, PortableFiles, States, Newer

LEMMA OffFacts == ProcessOK(Off) /\ Off.phase = "off" /\ Off.source = None
                  /\ Off.look = None /\ Off.lived = {} /\ Off.shown = Shut
<1>1. {} \in AgentSets /\ {} \in PaneSets BY DEF AgentSets, PaneSets
<1>2. None \in States /\ None \in Files /\ None \notin Instances
  BY DistinctAssumption DEF States, Files
<1>3. Off \in Apps BY <1>1, <1>2, ShutFacts DEF Off, Apps, Phases
<1>4. QED BY <1>2, <1>3 DEF Off, ProcessOK

\* The invariant, field by field.
LEMMA AppFacts ==
    ASSUME NEW r \in Apps
    PROVE  /\ r.phase \in Phases /\ r.then \in {"up", "discover", "publish"} /\ r.shown \in Workspaces
           /\ r.running \in AgentSets /\ r.lived \in AgentSets
           /\ r.pending \in States /\ r.loaded \in Files
           /\ r.source \in Panes \union {None} /\ r.look \in Panes \union {None}
           /\ r.recovery \in {"ok", "pending", "failed"} /\ r.swept \in PaneSets
           /\ r.prov \in AgentSets /\ r.gen \in {"none", "new", "tried"}
           /\ r.soft \in BOOLEAN
           /\ r.mayPortable \in BOOLEAN /\ r.mayLocal \in BOOLEAN
BY DEF Apps

\* What a step of one process preserves, whatever it does to the files.
LEMMA ProcessStep ==
    ASSUME RestartInv, NEW p \in Panes, NEW r, ProcessOK(r),
           app' = [app EXCEPT ![p] = r], DiskOK', PanesOK', FilesOK(p, r)',
           \A q \in Panes : Newer(file'[q]) => Newer(file[q]),
           Newer(portable') => Newer(portable),
           \A q \in Panes : pane[q] = "dead" => pane'[q] = "dead",
           \A q \in Panes \ {p} : pane'[q] = pane[q]
    PROVE  RestartInv'
<1>1. app \in [Panes -> Apps] /\ r \in Apps BY DEF RestartInv, ProcessOK
<1>2. app' \in [Panes -> Apps] BY <1>1
<1>3. app'[p] = r /\ \A q \in Panes \ {p} : app'[q] = app[q] BY <1>1
<1>4. ASSUME NEW q \in Panes \ {p} PROVE FilesOK(q, app[q])'
  <2>1. /\ FilesOK(q, app[q]) /\ app'[q] = app[q]
        /\ app[q].source \in Panes \union {None} /\ app[q].look \in Panes \union {None}
    BY <1>1, <1>3, AppFacts DEF RestartInv
  <2>2. QED BY <2>1 DEF FilesOK
<1>5. QED BY <1>2, <1>3, <1>4 DEF RestartInv

\* A step that leaves the files and panes as they are.
LEMMA QuietStep ==
    ASSUME RestartInv, NEW p \in Panes, NEW r, ProcessOK(r), FilesOK(p, r),
           app' = [app EXCEPT ![p] = r], UNCHANGED <<pane, file, portable, handoff>>,
           alive' \in AgentSets
    PROVE  RestartInv'
<1>1. DiskOK' /\ PanesOK' BY DEF RestartInv, DiskOK, PanesOK
<1>2. FilesOK(p, r)' BY DEF FilesOK
<1>3. QED BY <1>1, <1>2, ProcessStep

-----------------------------------------------------------------------------
(* The steps *)

LEMMA InvFacts ==
    ASSUME RestartInv, NEW p \in Panes
    PROVE  /\ app[p] \in Apps /\ ProcessOK(app[p]) /\ FilesOK(p, app[p])
           /\ file[p] \in Files /\ file[p] \in States
           /\ portable \in PortableFiles /\ portable \in States
           /\ alive \in AgentSets /\ pane[p] \in {"absent", "live", "dead"}
           /\ handoff \in Managed \union {None}
BY DEF RestartInv, DiskOK, States

LEMMA StartInv == ASSUME RestartInv, NEW p \in Panes, Start(p) PROVE RestartInv'
<1>1. /\ app[p].phase = "off" /\ UNCHANGED <<alive, file, portable, handoff>>
      /\ app' = [app EXCEPT ![p] = [app[p] EXCEPT !.phase = "portable"]]
      /\ pane[p] \in {"live", "absent"}
      /\ pane[p] = "live" => pane' = pane
      /\ pane[p] = "absent" => /\ \A q \in Managed : pane[q] # "live"
                               /\ pane' = [pane EXCEPT ![p] = "live"]
  BY DEF Start, At, Set, disk
<1>2. PICK r : r = [app[p] EXCEPT !.phase = "portable"] OBVIOUS
<1>3. ProcessOK(r) BY <1>2, InvFacts DEF ProcessOK, Apps, Phases
<1>4. /\ DiskOK' /\ pane'[p] = "live" /\ \A q \in Panes \ {p} : pane'[q] = pane[q]
  BY <1>1 DEF RestartInv, DiskOK
<1>5. PanesOK'
  BY <1>1, <1>4, SubsetAssumption DEF RestartInv, PanesOK, DiskOK
<1>6. FilesOK(p, r)'
  <2>1. /\ r.phase = "portable" /\ r.source = app[p].source /\ r.look = app[p].look
    BY <1>2, InvFacts DEF Apps
  <2>2. FilesOK(p, app[p]) /\ app[p].source \in Panes \union {None}
    BY InvFacts, AppFacts
  <2>3. r.source \notin {None, p} => pane'[r.source] = pane[r.source]
    BY <1>4, <2>1, <2>2
  <2>4. QED BY <1>1, <1>4, <2>1, <2>2, <2>3 DEF FilesOK
<1>7. \A q \in Panes : pane[q] = "dead" => pane'[q] = "dead"
  BY <1>1, <1>4
<1>8. QED BY <1>1, <1>2, <1>3, <1>4, <1>5, <1>6, <1>7, ProcessStep

PortableTaken(a, b, x) ==
    [a EXCEPT !.phase = "local", !.mayPortable = b, !.pending = x]
LEMMA PortableRead ==
    ASSUME NEW a \in Apps, NEW b \in BOOLEAN, NEW x \in States,
           NEW r, r = PortableTaken(a, b, x)
    PROVE  /\ r \in Apps /\ r.phase = "local" /\ r.mayPortable = b /\ r.pending = x
           /\ r.recovery = a.recovery /\ r.lived = a.lived /\ r.running = a.running
           /\ r.prov = a.prov
           /\ r.source = a.source /\ r.look = a.look
BY DEF Apps, Phases, PortableTaken

LEMMA ReadPortableInv ==
    ASSUME RestartInv, NEW p \in Panes, ReadPortable(p) PROVE RestartInv'
<1>1. app[p].phase = "portable" /\ UNCHANGED <<pane, alive, file, handoff>>
  BY DEF ReadPortable, At
<1>2. PICK b : b = (portable = None \/ Readable(portable)) OBVIOUS
<1>3. b \in BOOLEAN /\ (b => ~Newer(portable)) BY <1>2, InvFacts, ReadableFacts
<1> DEFINE found == IF Readable(portable) THEN portable ELSE None
           Read(x) == PortableTaken(app[p], b, x)
<1>4. PICK x \in PortableFiles :
        /\ app' = [app EXCEPT ![p] = Read(x)]
        /\ portable' = portable \/ (portable = None /\ portable' = Portable(None, FALSE))
  <2>1. CASE portable = None /\ Legacy
    <3>1. app' = [app EXCEPT ![p] = Read(Portable(None, FALSE))]
      BY <1>2, <2>1 DEF ReadPortable, Set, PortableTaken
    <3>2. portable' = portable \/ portable' = Portable(None, FALSE)
      BY <2>1 DEF ReadPortable, MayFail
    <3>3. QED BY <2>1, <3>1, <3>2, PortableFacts
  <2>2. CASE ~(portable = None /\ Legacy)
    <3>1. app' = [app EXCEPT ![p] = Read(found)] /\ portable' = portable
      BY <1>2, <2>2 DEF ReadPortable, Set, PortableTaken
    <3>2. found \in PortableFiles BY InvFacts DEF PortableFiles
    <3>3. QED BY <3>1, <3>2
  <2>3. QED BY <2>1, <2>2
<1>5. PICK r : r = Read(x) OBVIOUS
<1>6. x \in States /\ x \notin Instances
  <2>1. x \in States BY DEF States
  <2>2. x = None \/ x \in Portables BY DEF PortableFiles
  <2>3. QED BY <2>1, <2>2, InstanceFacts, DistinctAssumption
<1>7. /\ r \in Apps /\ r.phase = "local" /\ r.mayPortable = b /\ r.pending = x
      /\ r.recovery = app[p].recovery /\ r.lived = app[p].lived
      /\ r.running = app[p].running /\ r.prov = app[p].prov /\ r.source = app[p].source
      /\ r.look = app[p].look
  BY <1>3, <1>5, <1>6, InvFacts, PortableRead
<1>8. ProcessOK(r) BY <1>6, <1>7, InvFacts DEF ProcessOK
<1>9. portable' \in PortableFiles /\ (Newer(portable') => Newer(portable))
  <2>1. portable \in PortableFiles BY InvFacts
  <2>2. /\ Portable(None, FALSE) \in PortableFiles
        /\ ~Newer(Portable(None, FALSE))
    BY PortableFacts
  <2>3. QED BY <1>4, <2>1, <2>2
<1>10. DiskOK' /\ PanesOK' BY <1>1, <1>9 DEF RestartInv, DiskOK, PanesOK
<1>11. FilesOK(p, r)' BY <1>1, <1>3, <1>7, <1>9, InvFacts DEF FilesOK
<1>12. QED BY <1>1, <1>4, <1>5, <1>8, <1>9, <1>10, <1>11, ProcessStep

\* The source and the state that a process takes from its own file or the handoff.
LocalTaken(a, b, q, f) ==
    [a EXCEPT !.phase = "sweep", !.then = "discover", !.source = q, !.loaded = f,
              !.pending = f, !.mayLocal = b]
LEMMA LocalRead ==
    ASSUME NEW a \in Apps, NEW b \in BOOLEAN, NEW q \in Panes, NEW f \in Files,
           NEW r, r = LocalTaken(a, b, q, f)
    PROVE  /\ r \in Apps /\ r.phase = "sweep" /\ r.source = q /\ r.loaded = f
           /\ r.pending = f /\ r.mayLocal = b /\ r.mayPortable = a.mayPortable
           /\ r.recovery = a.recovery /\ r.lived = a.lived
           /\ r.running = a.running /\ r.prov = a.prov /\ r.look = a.look
BY DEF Apps, Phases, States, LocalTaken

NothingTaken(a, b) ==
    [a EXCEPT !.phase = "sweep", !.then = "discover", !.mayLocal = b]
LEMMA NoLocalRead ==
    ASSUME NEW a \in Apps, NEW b \in BOOLEAN, NEW r, r = NothingTaken(a, b)
    PROVE  /\ r \in Apps /\ r.phase = "sweep" /\ r.source = a.source
           /\ r.loaded = a.loaded /\ r.pending = a.pending
           /\ r.mayLocal = b /\ r.mayPortable = a.mayPortable
           /\ r.recovery = a.recovery /\ r.lived = a.lived
           /\ r.running = a.running /\ r.prov = a.prov /\ r.look = a.look
BY DEF Apps, Phases, NothingTaken

LEMMA ReadLocalInv ==
    ASSUME RestartInv, NEW p \in Panes, ReadLocal(p) PROVE RestartInv'
<1>1. /\ app[p].phase = "local" /\ UNCHANGED <<pane, alive, file, portable, handoff>>
      /\ pane[p] = "live"
  BY InvFacts DEF ReadLocal, At, disk, FilesOK
<1>2. PICK b : b = (file[p] = None \/ Readable(file[p])) OBVIOUS
<1>3. b \in BOOLEAN /\ (b => ~Newer(file[p])) BY <1>2, InvFacts, ReadableFacts
<1>4. ASSUME NEW q \in Panes, MaySource(p, q), NEW r,
             r = LocalTaken(app[p], b, q, file[q]),
             app' = [app EXCEPT ![p] = r]
      PROVE  RestartInv'
  <2>1. /\ r \in Apps /\ r.phase = "sweep" /\ r.source = q /\ r.loaded = file[q]
        /\ r.pending = file[q] /\ r.mayLocal = b /\ r.mayPortable = app[p].mayPortable
        /\ r.recovery = app[p].recovery /\ r.lived = app[p].lived
        /\ r.running = app[p].running /\ r.prov = app[p].prov /\ r.look = app[p].look
    BY <1>3, <1>4, InvFacts, LocalRead
  <2>2. ProcessOK(r) BY <2>1, InvFacts DEF ProcessOK
  <2>3. Readable(file[q]) /\ ~Newer(file[q])
    BY <1>4, InvFacts, ReadableFacts DEF MaySource
  <2>4. q # p => p \in Managed /\ q \in Managed /\ pane[q] = "dead"
    <3> SUFFICES ASSUME q # p PROVE p \in Managed /\ q \in Managed /\ pane[q] = "dead"
      OBVIOUS
    <3>1. p \in Managed /\ handoff = q BY <1>4 DEF MaySource
    <3>2. q \in Managed BY <3>1, InvFacts, DistinctAssumption
    <3>3. pane[q] # "absent" /\ pane[q] # "live"
      BY <1>1, <3>1, <3>2, DistinctAssumption DEF RestartInv, PanesOK
    <3>4. QED BY <3>1, <3>2, <3>3, InvFacts
  <2>5. FilesOK(p, r)
    BY <1>1, <1>3, <2>1, <2>3, <2>4, InvFacts DEF FilesOK
  <2>6. QED BY <1>1, <1>4, <2>2, <2>5, InvFacts, QuietStep
<1>5. ASSUME NEW r, r = NothingTaken(app[p], b), app' = [app EXCEPT ![p] = r]
      PROVE  RestartInv'
  <2>1. /\ r \in Apps /\ r.phase = "sweep" /\ r.source = app[p].source
        /\ r.loaded = app[p].loaded /\ r.pending = app[p].pending
        /\ r.mayLocal = b /\ r.mayPortable = app[p].mayPortable
        /\ r.recovery = app[p].recovery /\ r.lived = app[p].lived
        /\ r.running = app[p].running /\ r.prov = app[p].prov /\ r.look = app[p].look
    BY <1>3, <1>5, InvFacts, NoLocalRead
  <2>2. ProcessOK(r) BY <2>1, InvFacts DEF ProcessOK
  <2>3. FilesOK(p, r) BY <1>1, <1>3, <2>1, InvFacts DEF FilesOK
  <2>4. QED BY <1>1, <1>5, <2>2, <2>3, InvFacts, QuietStep
<1>6. QED BY <1>2, <1>4, <1>5, Zenon DEF ReadLocal, Set, LocalTaken, NothingTaken

\* The cleanup.
LEMMA SweepInv == ASSUME RestartInv, NEW p \in Panes, Sweep(p) PROVE RestartInv'
<1>1. /\ app[p].phase = "sweep" /\ UNCHANGED <<pane, alive, file, portable, handoff>>
  BY DEF Sweep, At, disk
<1>2. PICK a : a = app[p] OBVIOUS
<1>3. a \in Apps /\ ProcessOK(a) /\ FilesOK(p, a) /\ a.phase = "sweep" /\ pane[p] = "live"
  BY <1>1, <1>2, InvFacts DEF FilesOK
<1>4. ASSUME NEW q \in Panes, Stale(p, q), NEW r,
             r = [a EXCEPT !.look = q, !.swept = @ \union {q}],
             app' = [app EXCEPT ![p] = r]
      PROVE  RestartInv'
  <2>1. a.swept \union {q} \in PaneSets BY <1>3, AppFacts DEF PaneSets
  <2>2. /\ r \in Apps /\ r.look = q /\ r.phase = a.phase /\ r.then = a.then
        /\ r.shown = a.shown /\ r.running = a.running /\ r.prov = a.prov
        /\ r.lived = a.lived
        /\ r.pending = a.pending /\ r.loaded = a.loaded /\ r.source = a.source
        /\ r.recovery = a.recovery /\ r.mayPortable = a.mayPortable
        /\ r.mayLocal = a.mayLocal
    BY <1>3, <1>4, <2>1 DEF Apps
  <2>3. ~Newer(file[q]) BY <1>4, InvFacts, ReadableFacts DEF Stale
  <2>4. ProcessOK(r) /\ FilesOK(p, r) BY <1>3, <2>2, <2>3 DEF ProcessOK, FilesOK
  <2>5. QED BY <1>1, <1>4, <2>4, InvFacts, QuietStep
<1>5. ASSUME NEW r, r = [a EXCEPT !.phase = a.then, !.swept = {}],
             app' = [app EXCEPT ![p] = r], a.then \notin {"unlink", "clear"}
      PROVE  RestartInv'
  <2>1. {} \in PaneSets /\ a.then \in Phases BY <1>3, AppFacts DEF PaneSets, Phases
  <2>2. /\ r \in Apps /\ r.look = a.look /\ r.phase = a.then
        /\ r.shown = a.shown /\ r.running = a.running /\ r.prov = a.prov
        /\ r.lived = a.lived
        /\ r.pending = a.pending /\ r.loaded = a.loaded /\ r.source = a.source
        /\ r.recovery = a.recovery /\ r.mayPortable = a.mayPortable
        /\ r.mayLocal = a.mayLocal
    BY <1>3, <1>5, <2>1 DEF Apps
  <2>3. ProcessOK(r) /\ FilesOK(p, r) BY <1>3, <1>5, <2>2 DEF ProcessOK, FilesOK
  <2>4. QED BY <1>1, <1>5, <2>3, InvFacts, QuietStep
<1>6. a.then \notin {"unlink", "clear"} BY <1>3, AppFacts
<1>7. QED BY <1>2, <1>4, <1>5, <1>6 DEF Sweep, Set

LEMMA SweepOneInv == ASSUME RestartInv, NEW p \in Panes, SweepOne(p) PROVE RestartInv'
<1>1. /\ app[p].phase = "sweep" /\ app[p].look # None
      /\ UNCHANGED <<pane, alive, portable, handoff>>
      /\ file' = file \/ file' = [file EXCEPT ![app[p].look] = None]
      /\ app' = [app EXCEPT ![p] = [app[p] EXCEPT !.look = None]]
  BY DEF SweepOne, At, Set, MayFail
<1>2. PICK a : a = app[p] OBVIOUS
<1>3. /\ a \in Apps /\ ProcessOK(a) /\ FilesOK(p, a) /\ a.phase = "sweep"
      /\ pane[p] = "live" /\ a.look \in Panes
  BY <1>1, <1>2, InvFacts, AppFacts DEF FilesOK
<1>4. PICK r : r = [a EXCEPT !.look = None] OBVIOUS
<1>5. /\ r \in Apps /\ r.look = None /\ r.phase = a.phase /\ r.then = a.then
      /\ r.shown = a.shown /\ r.running = a.running /\ r.prov = a.prov
      /\ r.lived = a.lived
      /\ r.pending = a.pending /\ r.loaded = a.loaded /\ r.source = a.source
      /\ r.recovery = a.recovery /\ r.mayPortable = a.mayPortable
      /\ r.mayLocal = a.mayLocal
  BY <1>3, <1>4 DEF Apps
<1>6. /\ file' \in [Panes -> Files]
      /\ \A q \in Panes : file'[q] = file[q] \/ file'[q] = None
  BY <1>1, <1>2, <1>3 DEF RestartInv, DiskOK, Files
<1>7. \A q \in Panes : Newer(file'[q]) => Newer(file[q]) BY <1>6 DEF Newer
<1>8. DiskOK' /\ PanesOK' BY <1>1, <1>6 DEF RestartInv, DiskOK, PanesOK
<1>9. ProcessOK(r) BY <1>3, <1>5 DEF ProcessOK
<1>10. FilesOK(p, r)'
  <2>1. r.source \in Panes \union {None} BY <1>5, AppFacts
  <2>2. QED BY <1>1, <1>3, <1>5, <1>7, <2>1 DEF FilesOK
<1>11. QED BY <1>1, <1>2, <1>4, <1>7, <1>8, <1>9, <1>10, ProcessStep

\* What a discovery finds.
Discovered(a, found, there, first, g, k) ==
    [a EXCEPT !.phase = "up", !.running = found, !.lived = there, !.prov = first,
              !.gen = g, !.recovery = k]
LEMMA DiscoverCases ==
    ASSUME NEW p \in Panes, Discover(p)
    PROVE  \E found \in SUBSET alive, first \in SUBSET Codex,
              g \in {"none", "new"}, k \in {"ok", "pending", "failed"} :
             /\ first \subseteq found /\ (k = "ok" => alive \subseteq found)
             /\ app' = [app EXCEPT ![p] = Discovered(app[p], found, alive, first, g, k)]
<1> DEFINE first(known, found) == IF known THEN {} ELSE found \intersect Codex
           g(known) == IF known THEN "new" ELSE "none"
           kind(known, listed, found) ==
             IF listed /\ ~known /\ alive \intersect Codex # {} THEN "pending"
             ELSE IF listed /\ found = alive THEN "ok" ELSE "failed"
<1>1. PICK known, listed \in BOOLEAN, found \in SUBSET alive :
        app' = [app EXCEPT ![p] =
                  Discovered(app[p], found, alive, first(known, found), g(known),
                             kind(known, listed, found))]
  BY Zenon DEF Discover, Set, Discovered
<1>2. PICK x, y, z : /\ x = first(known, found) /\ y = g(known)
                     /\ z = kind(known, listed, found)
  OBVIOUS
<1>3. x \in SUBSET Codex /\ x \subseteq found /\ y \in {"none", "new"} BY <1>2
<1>4. z \in {"ok", "pending", "failed"} /\ (z = "ok" => alive \subseteq found) BY <1>2
<1> HIDE DEF first, g, kind
<1>5. app' = [app EXCEPT ![p] = Discovered(app[p], found, alive, x, y, z)]
  BY <1>1, <1>2
<1>6. QED BY <1>3, <1>4, <1>5

LEMMA DiscoverInv == ASSUME RestartInv, NEW p \in Panes, Discover(p) PROVE RestartInv'
<1>1. app[p].phase = "discover" /\ UNCHANGED <<pane, alive, file, portable, handoff>>
  BY DEF Discover, At, disk
<1>2. PICK found \in SUBSET alive, first \in SUBSET Codex, g \in {"none", "new"},
           k \in {"ok", "pending", "failed"} :
        /\ first \subseteq found /\ (k = "ok" => alive \subseteq found)
        /\ app' = [app EXCEPT ![p] = Discovered(app[p], found, alive, first, g, k)]
  BY DiscoverCases
<1>3. /\ found \in AgentSets /\ alive \in AgentSets /\ first \in AgentSets
      /\ g \in {"none", "new", "tried"}
  BY <1>2, InvFacts DEF AgentSets
<1>4. PICK a : a = app[p] OBVIOUS
<1>5. a \in Apps /\ ProcessOK(a) /\ FilesOK(p, a) /\ a.phase = "discover"
  BY <1>1, <1>4, InvFacts
<1>6. PICK r : r = Discovered(a, found, alive, first, g, k) OBVIOUS
<1>7. /\ r \in Apps /\ r.running = found /\ r.lived = alive /\ r.prov = first
      /\ r.recovery = k /\ r.phase = "up" /\ r.pending = a.pending
      /\ r.loaded = a.loaded /\ r.source = a.source /\ r.look = a.look
      /\ r.mayPortable = a.mayPortable /\ r.mayLocal = a.mayLocal
  BY <1>3, <1>5, <1>6 DEF Apps, Phases, Discovered
<1>8. ProcessOK(r) /\ FilesOK(p, r)
  BY <1>1, <1>2, <1>5, <1>7 DEF ProcessOK, FilesOK
<1>9. app' = [app EXCEPT ![p] = r] BY <1>2, <1>4, <1>6
<1>10. QED BY <1>1, <1>3, <1>8, <1>9, QuietStep

LEMMA IndexPublishesInv ==
    ASSUME RestartInv, NEW p \in Panes, IndexPublishes(p) PROVE RestartInv'
<1>1. /\ UNCHANGED <<pane, alive, file, portable, handoff>>
      /\ app' = [app EXCEPT ![p] = [app[p] EXCEPT !.gen = "new"]]
  BY DEF IndexPublishes, Set, disk
<1>2. PICK a : a = app[p] OBVIOUS
<1>3. a \in Apps /\ ProcessOK(a) /\ FilesOK(p, a) BY <1>2, InvFacts
<1>4. PICK r : r = [a EXCEPT !.gen = "new"] OBVIOUS
<1>5. /\ r \in Apps /\ r.phase = a.phase /\ r.shown = a.shown
      /\ r.running = a.running /\ r.prov = a.prov /\ r.lived = a.lived
      /\ r.recovery = a.recovery /\ r.pending = a.pending /\ r.loaded = a.loaded
      /\ r.source = a.source /\ r.look = a.look /\ r.mayPortable = a.mayPortable
      /\ r.mayLocal = a.mayLocal
  BY <1>3, <1>4 DEF Apps
<1>6. ProcessOK(r) /\ FilesOK(p, r) BY <1>3, <1>5 DEF ProcessOK, FilesOK
<1>7. QED BY <1>1, <1>2, <1>4, <1>6, InvFacts, QuietStep

\* The agents that a retry finds again are among those it represents.
LEMMA RefoundFacts ==
    ASSUME RestartInv, NEW p \in Panes, NEW new \in SUBSET alive, NEW f,
           f = Refound(p, new)
    PROVE  f \in AgentSets
BY InvFacts, AppFacts DEF Refound, AgentSets

Resettled(a, found, there, k) ==
    [a EXCEPT !.running = found, !.lived = there, !.prov = {}, !.recovery = k]
LEMMA SettleInv == ASSUME RestartInv, NEW p \in Panes, Settle(p) PROVE RestartInv'
<1>1. app[p].phase = "up" /\ UNCHANGED <<pane, alive, file, portable, handoff>>
  BY DEF Settle, Retries, At, Up, disk
<1> DEFINE kind(new) == IF alive \subseteq Refound(p, new) THEN "ok" ELSE "failed"
<1>2. PICK new \in SUBSET alive :
        app' = [app EXCEPT ![p] = Resettled(app[p], Refound(p, new), alive, kind(new))]
  BY Zenon DEF Settle, Set, Resettled
<1>3. PICK found, k : found = Refound(p, new) /\ k = kind(new) OBVIOUS
<1>4. k \in {"ok", "pending", "failed"} /\ (k = "ok" => alive \subseteq found)
  BY <1>3
<1>5. found \in AgentSets /\ alive \in AgentSets /\ {} \in AgentSets
  BY <1>3, RefoundFacts, InvFacts DEF AgentSets
<1>6. PICK r : r = Resettled(app[p], found, alive, k) OBVIOUS
<1>7. PICK a : a = app[p] OBVIOUS
<1>8. /\ r \in Apps /\ r.running = found /\ r.prov = {} /\ r.lived = alive
      /\ r.recovery = k /\ r.phase = a.phase /\ r.pending = a.pending
      /\ r.loaded = a.loaded /\ r.source = a.source /\ r.look = a.look
      /\ r.mayPortable = a.mayPortable /\ r.mayLocal = a.mayLocal
  <2>1. a \in Apps BY <1>7, InvFacts
  <2>2. k \in {"ok", "pending", "failed"} BY <1>4
  <2>3. r = [a EXCEPT !.running = found, !.lived = alive, !.prov = {}, !.recovery = k]
    BY <1>6, <1>7 DEF Resettled
  <2>4. QED BY <1>5, <2>1, <2>2, <2>3 DEF Apps
<1>9. ProcessOK(r) /\ FilesOK(p, r)
  BY <1>1, <1>4, <1>7, <1>8, InvFacts DEF ProcessOK, FilesOK
<1>10. app' = [app EXCEPT ![p] = r]
  <2> HIDE DEF kind
  <2>1. QED BY <1>2, <1>3, <1>6
<1>11. QED BY <1>1, <1>5, <1>9, <1>10, QuietStep

\* A retry that settles nothing, and one that could not look.
Retained(a, found, back) == [a EXCEPT !.running = found, !.prov = back, !.gen = "tried"]
LEMMA StaysPendingInv ==
    ASSUME RestartInv, NEW p \in Panes, StaysPending(p) PROVE RestartInv'
<1>1. /\ app[p].phase = "up" /\ app[p].recovery = "pending"
      /\ UNCHANGED <<pane, alive, file, portable, handoff>>
  BY DEF StaysPending, Retries, At, Up, disk
<1>2. PICK new \in SUBSET alive, back \in SUBSET (app[p].prov \intersect alive) :
        app' = [app EXCEPT ![p] = Retained(app[p], Refound(p, new) \union back, back)]
  BY Zenon DEF StaysPending, Set, Retained
<1>3. PICK found : found = Refound(p, new) \union back OBVIOUS
<1>4. back \in AgentSets /\ found \in AgentSets /\ alive \in AgentSets
  <2>1. Refound(p, new) \in AgentSets BY RefoundFacts
  <2>2. back \in AgentSets BY <1>2, InvFacts DEF AgentSets
  <2>3. QED BY <1>3, <2>1, <2>2, InvFacts DEF AgentSets
<1>5. PICK a : a = app[p] OBVIOUS
<1>6. a \in Apps /\ ProcessOK(a) /\ FilesOK(p, a) BY <1>5, InvFacts
<1>7. PICK r : r = Retained(a, found, back) OBVIOUS
<1>8. /\ r \in Apps /\ r.running = found /\ r.prov = back /\ r.lived = a.lived
      /\ r.recovery = a.recovery /\ r.phase = a.phase /\ r.pending = a.pending
      /\ r.loaded = a.loaded /\ r.source = a.source /\ r.look = a.look
      /\ r.mayPortable = a.mayPortable /\ r.mayLocal = a.mayLocal
  BY <1>4, <1>6, <1>7 DEF Apps, Retained
<1>9. back \subseteq found BY <1>3
<1>10. ProcessOK(r) /\ FilesOK(p, r)
  BY <1>1, <1>5, <1>6, <1>8, <1>9 DEF ProcessOK, FilesOK
<1>11. app' = [app EXCEPT ![p] = r] BY <1>2, <1>3, <1>5, <1>7
<1>12. QED BY <1>1, <1>4, <1>10, <1>11, QuietStep

LEMMA ProbeFailsInv ==
    ASSUME RestartInv, NEW p \in Panes, ProbeFails(p) PROVE RestartInv'
<1>1. UNCHANGED <<pane, alive, file, portable, handoff, app>>
  BY DEF ProbeFails, disk
<1>2. QED BY <1>1 DEF RestartInv, DiskOK, PanesOK, FilesOK

\* Where a restoration ends.
LEMMA OutcomeFacts ==
    ASSUME NEW p \in Panes, NEW w, NEW v \in Outcomes(p, w)
    PROVE  /\ v \in Workspaces
           /\ \A s \in Slots : v[s] = Empty \/ v[s] = Closed \/ Showable(p, v[s])
BY DEF Outcomes

LEMMA PortableOutcomeFacts ==
    ASSUME NEW p \in Panes, NEW x \in Contents \union {None},
           NEW v \in PortableOutcomes(p, x)
    PROVE  /\ v \in Workspaces
           /\ \A s \in Slots : v[s] = Closed \/ Showable(p, v[s])
<1>1. PICK c : /\ v = [Shut EXCEPT !["primary"] = c]
               /\ \/ c = Closed
                  \/ x \in Agents /\ c = Transcript(x)
                  \/ x \in Agents /\ c = x /\ Showable(p, x)
                  \/ x \notin Agents /\ c = x /\ x # None
  BY DEF PortableOutcomes
<1>2. c \in Contents BY <1>1, ShutFacts DEF Contents, Transcripts
<1>3. v \in Workspaces BY <1>1, <1>2, ShutFacts DEF Shut, Workspaces, Slots
<1>4. c = Closed \/ Showable(p, c)
  <2>1. CASE x \in Agents /\ c = Transcript(x)
    <3>1. c \in Transcripts BY <2>1 DEF Transcripts
    <3>2. c \notin Agents BY <3>1, DistinctAssumption
    <3>3. QED BY <3>2 DEF Showable
  <2>2. CASE x \notin Agents /\ c = x BY <2>2 DEF Showable
  <2>3. QED BY <1>1, <2>1, <2>2
<1>5. v["primary"] = c /\ v["secondary"] = Closed BY <1>1 DEF Shut, Slots
<1>6. QED BY <1>3, <1>4, <1>5 DEF Slots

\* The three ends of a restoration.
AllShown(a, v) == [a EXCEPT !.pending = None, !.shown = v, !.phase = "unlink"]
PartShown(a, v) ==
    [a EXCEPT !.pending = None, !.shown = v, !.source = None, !.loaded = None]
WishShown(a, v) == [a EXCEPT !.pending = None, !.shown = v]

LEMMA RestoreCases ==
    ASSUME RestartInv, NEW p \in Panes, Restore(p)
    PROVE  /\ app[p].phase = "up" /\ UNCHANGED <<pane, alive, file, portable, handoff>>
           /\ \E v \in Workspaces :
                /\ \A s \in Slots : v[s] = Empty \/ v[s] = Closed \/ Showable(p, v[s])
                /\ \/ /\ app[p].pending \in Instances /\ v = app[p].pending.slots
                      /\ app[p].recovery = "ok"
                      /\ app' = [app EXCEPT ![p] = AllShown(app[p], v)]
                   \/ app' = [app EXCEPT ![p] = PartShown(app[p], v)]
                   \/ app' = [app EXCEPT ![p] = WishShown(app[p], v)]
<1>1. /\ app[p].phase = "up" /\ UNCHANGED <<pane, alive, file, portable, handoff>>
      /\ app[p].pending # None
  BY DEF Restore, Up, At, disk
<1>2. PICK st : st = app[p].pending OBVIOUS
<1>3. st \in States /\ st # None BY <1>1, <1>2, InvFacts, AppFacts
<1>4. CASE IsLocal(st)
  <2>1. st \in Instances BY <1>3, <1>4, InstanceFacts
  <2>2. PICK v \in Outcomes(p, st.slots) :
          IF Restored(st.slots, v) /\ Settled(p)
          THEN app' = [app EXCEPT ![p] = AllShown(app[p], v)]
          ELSE app' = [app EXCEPT ![p] = PartShown(app[p], v)]
    BY <1>2, <1>4, Zenon DEF Restore, Set, AllShown, PartShown
  <2>3. QED BY <1>1, <1>2, <2>1, <2>2, OutcomeFacts DEF Restored, Settled
<1>5. CASE ~IsLocal(st)
  <2>1. st.right \in Contents \union {None} BY <1>3, <1>5, InstanceFacts
  <2>2. PICK v \in PortableOutcomes(p, st.right) :
          app' = [app EXCEPT ![p] = WishShown(app[p], v)]
    BY <1>2, <1>5, Zenon DEF Restore, Set, WishShown
  <2>3. QED BY <1>1, <2>1, <2>2, PortableOutcomeFacts
<1>6. QED BY <1>4, <1>5

LEMMA RestoreInv == ASSUME RestartInv, NEW p \in Panes, Restore(p) PROVE RestartInv'
<1>1. /\ app[p].phase = "up" /\ UNCHANGED <<pane, alive, file, portable, handoff>>
  BY RestoreCases
<1>2. PICK a : a = app[p] OBVIOUS
<1>3. /\ a \in Apps /\ ProcessOK(a) /\ FilesOK(p, a) /\ a.phase = "up"
      /\ None \in States /\ None \in Files /\ None \notin Instances
  BY <1>1, <1>2, InvFacts, DistinctAssumption DEF States, Files
<1>4. PICK v \in Workspaces :
        \/ /\ a.pending \in Instances /\ v = a.pending.slots /\ a.recovery = "ok"
           /\ app' = [app EXCEPT ![p] = AllShown(a, v)]
        \/ app' = [app EXCEPT ![p] = PartShown(a, v)]
        \/ app' = [app EXCEPT ![p] = WishShown(a, v)]
  BY <1>2, RestoreCases
<1>5. ASSUME a.pending \in Instances, v = a.pending.slots, a.recovery = "ok",
             NEW r, r = AllShown(a, v), app' = [app EXCEPT ![p] = r]
      PROVE  RestartInv'
  <2>1. /\ r \in Apps /\ r.phase = "unlink" /\ r.shown = v
        /\ r.running = a.running /\ r.prov = a.prov /\ r.lived = a.lived
        /\ r.recovery = a.recovery
        /\ r.pending = None /\ r.loaded = a.loaded /\ r.source = a.source
        /\ r.look = a.look /\ r.mayPortable = a.mayPortable
        /\ r.mayLocal = a.mayLocal
    BY <1>3, <1>5 DEF Apps, Phases, AllShown
  <2>2. ProcessOK(r) /\ FilesOK(p, r) BY <1>3, <1>5, <2>1 DEF ProcessOK, FilesOK
  <2>3. QED BY <1>1, <1>5, <2>2, InvFacts, QuietStep
<1>6. ASSUME NEW r, r = PartShown(a, v), app' = [app EXCEPT ![p] = r]
      PROVE  RestartInv'
  <2>1. /\ r \in Apps /\ r.phase = "up"
        /\ r.running = a.running /\ r.prov = a.prov /\ r.lived = a.lived
        /\ r.recovery = a.recovery
        /\ r.pending = None /\ r.source = None
        /\ r.look = a.look /\ r.mayPortable = a.mayPortable
        /\ r.mayLocal = a.mayLocal
    BY <1>3, <1>6 DEF Apps, PartShown
  <2>2. ProcessOK(r) /\ FilesOK(p, r) BY <1>3, <2>1 DEF ProcessOK, FilesOK
  <2>3. QED BY <1>1, <1>6, <2>2, InvFacts, QuietStep
<1>7. ASSUME NEW r, r = WishShown(a, v), app' = [app EXCEPT ![p] = r]
      PROVE  RestartInv'
  <2>1. /\ r \in Apps /\ r.phase = "up"
        /\ r.running = a.running /\ r.prov = a.prov /\ r.lived = a.lived
        /\ r.recovery = a.recovery
        /\ r.pending = None /\ r.source = a.source
        /\ r.look = a.look /\ r.mayPortable = a.mayPortable
        /\ r.mayLocal = a.mayLocal
    BY <1>3, <1>7 DEF Apps, WishShown
  <2>2. ProcessOK(r) /\ FilesOK(p, r) BY <1>3, <2>1 DEF ProcessOK, FilesOK
  <2>3. QED BY <1>1, <1>7, <2>2, InvFacts, QuietStep
<1>8. QED BY <1>4, <1>5, <1>6, <1>7

LEMMA RestoreRaisesInv ==
    ASSUME RestartInv, NEW p \in Panes, RestoreRaises(p) PROVE RestartInv'
<1>1. /\ app[p].phase = "up" /\ UNCHANGED <<pane, alive, file, portable, handoff>>
      /\ app' = [app EXCEPT ![p] =
                   [app[p] EXCEPT !.pending = None, !.phase = "core",
                                  !.source = None, !.loaded = None]]
  BY DEF RestoreRaises, Up, At, Set, disk
<1>2. PICK a : a = app[p] OBVIOUS
<1>3. /\ a \in Apps /\ ProcessOK(a) /\ FilesOK(p, a) /\ a.phase = "up"
      /\ None \in States /\ None \in Files /\ None \notin Instances
  BY <1>1, <1>2, InvFacts, DistinctAssumption DEF States, Files
<1>4. PICK r : r = [a EXCEPT !.pending = None, !.phase = "core", !.source = None,
                             !.loaded = None]
  OBVIOUS
<1>5. /\ r \in Apps /\ r.phase = "core"
      /\ r.running = a.running /\ r.prov = a.prov /\ r.lived = a.lived
      /\ r.recovery = a.recovery
      /\ r.pending = None /\ r.source = None
      /\ r.look = a.look /\ r.mayPortable = a.mayPortable
      /\ r.mayLocal = a.mayLocal
  BY <1>3, <1>4 DEF Apps, Phases
<1>6. ProcessOK(r) /\ FilesOK(p, r) BY <1>3, <1>5 DEF ProcessOK, FilesOK
<1>7. QED BY <1>1, <1>2, <1>4, <1>6, InvFacts, QuietStep

LEMMA UnlinkInv == ASSUME RestartInv, NEW p \in Panes, Unlink(p) PROVE RestartInv'
<1>1. /\ app[p].phase = "unlink" /\ UNCHANGED <<pane, alive, portable, handoff>>
      /\ file' = file \/ file' = [file EXCEPT ![app[p].source] = None]
      /\ app' = [app EXCEPT ![p] = [app[p] EXCEPT !.phase = "clear"]]
  BY DEF Unlink, At, Set, MayFail
<1>2. PICK a : a = app[p] OBVIOUS
<1>3. /\ a \in Apps /\ ProcessOK(a) /\ FilesOK(p, a) /\ a.phase = "unlink"
  BY <1>1, <1>2, InvFacts
<1>4. PICK r : r = [a EXCEPT !.phase = "clear"] OBVIOUS
<1>5. /\ r \in Apps /\ r.look = a.look /\ r.phase = "clear"
      /\ r.shown = a.shown /\ r.running = a.running /\ r.prov = a.prov
      /\ r.lived = a.lived
      /\ r.pending = a.pending /\ r.loaded = a.loaded /\ r.source = a.source
      /\ r.recovery = a.recovery /\ r.mayPortable = a.mayPortable
      /\ r.mayLocal = a.mayLocal
  BY <1>3, <1>4 DEF Apps, Phases
<1>6. /\ file' \in [Panes -> Files]
      /\ \A q \in Panes : file'[q] = file[q] \/ file'[q] = None
  BY <1>1, <1>2, <1>3 DEF RestartInv, DiskOK, Files
<1>7. \A q \in Panes : Newer(file'[q]) => Newer(file[q]) BY <1>6 DEF Newer
<1>8. DiskOK' /\ PanesOK' BY <1>1, <1>6 DEF RestartInv, DiskOK, PanesOK
<1>9. ProcessOK(r) BY <1>3, <1>5 DEF ProcessOK
<1>10. FilesOK(p, r)'
  <2>1. r.source \in Panes \union {None} /\ r.look \in Panes \union {None}
    BY <1>5, AppFacts
  <2>2. QED BY <1>1, <1>3, <1>5, <1>7, <2>1 DEF FilesOK
<1>11. QED BY <1>1, <1>2, <1>4, <1>7, <1>8, <1>9, <1>10, ProcessStep

LEMMA ClearHandoffInv ==
    ASSUME RestartInv, NEW p \in Panes, ClearHandoff(p) PROVE RestartInv'
<1>1. /\ app[p].phase = "clear" /\ UNCHANGED <<pane, alive, file, portable>>
      /\ handoff' = handoff \/ handoff' = None
      /\ app' = [app EXCEPT ![p] = [app[p] EXCEPT !.phase = "up", !.source = None,
                                                  !.loaded = None]]
  BY DEF ClearHandoff, At, Set, MayFail
<1>2. PICK a : a = app[p] OBVIOUS
<1>3. /\ a \in Apps /\ ProcessOK(a) /\ FilesOK(p, a) /\ a.phase = "clear"
      /\ None \in Files /\ None \notin Instances
  BY <1>1, <1>2, InvFacts, DistinctAssumption DEF Files
<1>4. PICK r : r = [a EXCEPT !.phase = "up", !.source = None, !.loaded = None] OBVIOUS
<1>5. /\ r \in Apps /\ r.look = a.look /\ r.phase = "up"
      /\ r.running = a.running /\ r.prov = a.prov /\ r.lived = a.lived
      /\ r.pending = a.pending /\ r.loaded = None /\ r.source = None
      /\ r.recovery = a.recovery /\ r.mayPortable = a.mayPortable
      /\ r.mayLocal = a.mayLocal
  BY <1>3, <1>4 DEF Apps, Phases
<1>6. DiskOK' /\ PanesOK' BY <1>1 DEF RestartInv, DiskOK, PanesOK
<1>7. ProcessOK(r) BY <1>3, <1>5 DEF ProcessOK
<1>8. FilesOK(p, r)' BY <1>1, <1>3, <1>5 DEF FilesOK
<1>9. QED BY <1>1, <1>2, <1>4, <1>6, <1>7, <1>8, ProcessStep

\* The user.
ShowsNow(a, w, run) == [a EXCEPT !.shown = w, !.running = run]
LEMMA ShowInv ==
    ASSUME RestartInv, NEW p \in Panes, NEW s \in Slots, NEW c \in Contents,
           Show(p, s, c)
    PROVE  RestartInv'
<1>1. /\ app[p].phase = "up" /\ UNCHANGED <<pane, file, portable, handoff>>
      /\ [app[p].shown EXCEPT ![s] = c] \in Workspaces
      /\ alive' = alive \union ({c} \intersect Agents)
      /\ app' = [app EXCEPT ![p] =
                   ShowsNow(app[p], [app[p].shown EXCEPT ![s] = c],
                            app[p].running \union ({c} \intersect Agents))]
  BY DEF Show, Up, At, Set, disk, ShowsNow
<1>2. PICK a : a = app[p] OBVIOUS
<1>3. PICK w, run : /\ w = [a.shown EXCEPT ![s] = c]
                    /\ run = a.running \union ({c} \intersect Agents)
  OBVIOUS
<1>4. a \in Apps /\ ProcessOK(a) /\ FilesOK(p, a) /\ a.phase = "up"
  BY <1>1, <1>2, InvFacts
<1>5. /\ w \in Workspaces /\ run \in AgentSets /\ a.running \subseteq run
      /\ alive' \in AgentSets
  BY <1>1, <1>2, <1>3, <1>4, InvFacts, AppFacts DEF AgentSets
<1>6. PICK r : r = ShowsNow(a, w, run) OBVIOUS
<1>7. /\ r \in Apps /\ r.phase = "up" /\ r.running = run /\ r.prov = a.prov
      /\ r.lived = a.lived
      /\ r.pending = a.pending /\ r.loaded = a.loaded /\ r.source = a.source
      /\ r.look = a.look /\ r.recovery = a.recovery
      /\ r.mayPortable = a.mayPortable /\ r.mayLocal = a.mayLocal
  BY <1>4, <1>5, <1>6 DEF Apps, ShowsNow
<1>8. ProcessOK(r) /\ FilesOK(p, r) BY <1>4, <1>5, <1>7 DEF ProcessOK, FilesOK
<1>9. app' = [app EXCEPT ![p] = r] BY <1>1, <1>2, <1>3, <1>6
<1>10. QED BY <1>1, <1>5, <1>8, <1>9, QuietStep

\* A step to another phase, which says nothing new of the files.
Moved(a, ph, th, dlg) == [a EXCEPT !.phase = ph, !.then = th, !.dialog = dlg]
LEMMA MovedOK ==
    ASSUME RestartInv, NEW p \in Panes, app[p].phase \in {"up", "save", "saveLocal"},
           NEW ph \in {"up", "save", "saveLocal", "sweep"}, NEW th \in {"up", "publish"},
           NEW dlg \in BOOLEAN, NEW r, r = Moved(app[p], ph, th, dlg)
    PROVE  ProcessOK(r) /\ FilesOK(p, r)
<1>1. PICK a : a = app[p] OBVIOUS
<1>2. a \in Apps /\ ProcessOK(a) /\ FilesOK(p, a) BY <1>1, InvFacts
<1>3. /\ r \in Apps /\ r.phase = ph /\ r.shown = a.shown
      /\ r.running = a.running /\ r.prov = a.prov /\ r.lived = a.lived
      /\ r.pending = a.pending /\ r.loaded = a.loaded /\ r.source = a.source
      /\ r.look = a.look /\ r.recovery = a.recovery
      /\ r.mayPortable = a.mayPortable /\ r.mayLocal = a.mayLocal
  <2>1. a \in Apps /\ ph \in Phases /\ th \in {"up", "discover", "publish"}
    BY <1>2 DEF Phases
  <2>2. r = [a EXCEPT !.phase = ph, !.then = th, !.dialog = dlg] BY <1>1 DEF Moved
  <2>3. QED BY <2>1, <2>2 DEF Apps
<1>4. QED BY <1>1, <1>2, <1>3 DEF ProcessOK, FilesOK

LEMMA QuitInv ==
    ASSUME RestartInv, NEW p \in Panes, AskQuit(p) \/ Cancel(p) \/ SoftQuit(p)
    PROVE  RestartInv'
<1>1. PICK a : a = app[p] OBVIOUS
<1>2. /\ a \in Apps /\ a.phase = "up" /\ UNCHANGED <<pane, alive, file, portable, handoff>>
  BY <1>1, InvFacts DEF AskQuit, Cancel, SoftQuit, Up, At, disk
<1>3. ASSUME NEW r, r = [a EXCEPT !.phase = "save", !.then = "up", !.dialog = TRUE],
             app' = [app EXCEPT ![p] = r]
      PROVE  RestartInv'
  <2>1. r = Moved(a, "save", "up", TRUE) BY <1>3 DEF Moved
  <2>2. QED BY <1>1, <1>2, <1>3, <2>1, MovedOK, InvFacts, QuietStep
<1>4. ASSUME NEW r, r = [a EXCEPT !.phase = "save", !.then = "publish"],
             app' = [app EXCEPT ![p] = r]
      PROVE  RestartInv'
  <2>1. a.dialog \in BOOLEAN /\ r = Moved(a, "save", "publish", a.dialog)
    BY <1>2, <1>4 DEF Moved, Apps
  <2>2. QED BY <1>1, <1>2, <1>4, <2>1, MovedOK, InvFacts, QuietStep
<1>5. ASSUME NEW r, r = [a EXCEPT !.dialog = FALSE], app' = [app EXCEPT ![p] = r]
      PROVE  RestartInv'
  <2>1. /\ r \in Apps /\ r.phase = "up" /\ r.shown = a.shown
        /\ r.running = a.running /\ r.prov = a.prov /\ r.lived = a.lived
        /\ r.pending = a.pending /\ r.loaded = a.loaded /\ r.source = a.source
        /\ r.look = a.look /\ r.recovery = a.recovery
        /\ r.mayPortable = a.mayPortable /\ r.mayLocal = a.mayLocal
    BY <1>2, <1>5 DEF Apps
  <2>2. ProcessOK(r) /\ FilesOK(p, r)
    BY <1>1, <1>2, <2>1, InvFacts DEF ProcessOK, FilesOK
  <2>3. QED BY <1>2, <1>5, <2>2, InvFacts, QuietStep
<1>6. QED BY <1>1, <1>3, <1>4, <1>5 DEF AskQuit, Cancel, SoftQuit, Set

LEMMA HardQuitInv == ASSUME RestartInv, NEW p \in Panes, HardQuit(p) PROVE RestartInv'
<1>1. /\ app[p].phase = "up" /\ UNCHANGED <<pane, alive, file, portable, handoff>>
      /\ app' = [app EXCEPT ![p] =
                   [app[p] EXCEPT !.phase = "core", !.pending = None]]
  BY DEF HardQuit, Up, At, Set, disk
<1>2. PICK a : a = app[p] OBVIOUS
<1>3. /\ a \in Apps /\ ProcessOK(a) /\ FilesOK(p, a) /\ a.phase = "up"
      /\ None \in States /\ None \notin Instances
  BY <1>1, <1>2, InvFacts, DistinctAssumption DEF States, Files
<1>4. PICK r : r = [a EXCEPT !.phase = "core", !.pending = None] OBVIOUS
<1>5. /\ r \in Apps /\ r.phase = "core"
      /\ r.running = a.running /\ r.prov = a.prov /\ r.lived = a.lived
      /\ r.recovery = a.recovery
      /\ r.pending = None /\ r.source = a.source
      /\ r.look = a.look /\ r.mayPortable = a.mayPortable
      /\ r.mayLocal = a.mayLocal
  BY <1>3, <1>4 DEF Apps, Phases
<1>6. ProcessOK(r) /\ FilesOK(p, r) BY <1>3, <1>5 DEF ProcessOK, FilesOK
<1>7. QED BY <1>1, <1>2, <1>4, <1>6, InvFacts, QuietStep

\* The saves.  A process of this version writes no file of a newer schema.
LEMMA WishFacts ==
    ASSUME RestartInv, NEW p \in Panes, NEW x \in Wishes(p) PROVE x \in Contents \union {None}
BY InvFacts, AppFacts DEF Wishes, Contents, AgentSets

LEMMA SavePortableInv ==
    ASSUME RestartInv, NEW p \in Panes, SavePortable(p) PROVE RestartInv'
<1>1. /\ app[p].phase = "save" /\ UNCHANGED <<pane, alive, file, handoff>>
      /\ app' = [app EXCEPT ![p] = [app[p] EXCEPT !.phase = "saveLocal"]]
      /\ \/ portable' = portable
         \/ \E x \in Wishes(p) \union {None} : portable' = Portable(x, FALSE)
  BY DEF SavePortable, At, Set, MayFail
<1>2. portable' \in PortableFiles /\ (Newer(portable') => Newer(portable))
  BY <1>1, InvFacts, WishFacts, PortableFacts
<1>3. DiskOK' /\ PanesOK' BY <1>1, <1>2 DEF RestartInv, DiskOK, PanesOK
<1>4. PICK a : a = app[p] OBVIOUS
<1>5. a \in Apps /\ ProcessOK(a) /\ FilesOK(p, a) /\ a.phase = "save"
  BY <1>1, <1>4, InvFacts
<1>6. PICK r : r = [a EXCEPT !.phase = "saveLocal"] OBVIOUS
<1>7. /\ r \in Apps /\ r.phase = "saveLocal" /\ r.shown = a.shown
      /\ r.running = a.running /\ r.prov = a.prov /\ r.lived = a.lived
      /\ r.pending = a.pending /\ r.loaded = a.loaded /\ r.source = a.source
      /\ r.look = a.look /\ r.recovery = a.recovery
      /\ r.mayPortable = a.mayPortable /\ r.mayLocal = a.mayLocal
  BY <1>5, <1>6 DEF Apps, Phases
<1>8. ProcessOK(r) /\ FilesOK(p, r)'
  BY <1>1, <1>2, <1>5, <1>7 DEF ProcessOK, FilesOK
<1>9. QED BY <1>1, <1>2, <1>3, <1>4, <1>6, <1>8, ProcessStep

LEMMA SaveLocalInv ==
    ASSUME RestartInv, NEW p \in Panes, SaveLocal(p) PROVE RestartInv'
<1>1. /\ app[p].phase = "saveLocal" /\ UNCHANGED <<pane, alive, portable, handoff>>
      /\ app' = [app EXCEPT ![p] = [app[p] EXCEPT !.phase = "sweep"]]
      /\ \/ file' = file
         \/ \E x \in Targets(app[p].shown) :
              file' = [file EXCEPT ![p] = Instance(app[p].shown, x, app[p].running, FALSE)]
  BY DEF SaveLocal, At, Set, MayFail
<1>2. PICK a : a = app[p] OBVIOUS
<1>3. a \in Apps /\ ProcessOK(a) /\ FilesOK(p, a) /\ a.phase = "saveLocal"
  BY <1>1, <1>2, InvFacts
<1>4. ASSUME NEW x \in Targets(a.shown), NEW f, f = Instance(a.shown, x, a.running, FALSE)
      PROVE  f \in Files /\ ~Newer(f)
  BY <1>3, <1>4, AppFacts, SavedFacts
<1>5. file' = file \/ \E f \in Files : ~Newer(f) /\ file' = [file EXCEPT ![p] = f]
  BY <1>1, <1>2, <1>4
<1>6. /\ file' \in [Panes -> Files]
      /\ \A q \in Panes : Newer(file'[q]) => Newer(file[q])
      /\ \A q \in Panes \ {p} : file'[q] = file[q]
  BY <1>5 DEF RestartInv, DiskOK
<1>7. DiskOK' BY <1>1, <1>6 DEF RestartInv, DiskOK
<1>8. PanesOK'
  <2>1. pane[p] = "live" BY <1>3 DEF FilesOK
  <2>2. QED BY <1>1, <1>6, <2>1 DEF RestartInv, PanesOK
<1>9. PICK r : r = [a EXCEPT !.phase = "sweep"] OBVIOUS
<1>10. /\ r \in Apps /\ r.phase = "sweep" /\ r.shown = a.shown
      /\ r.running = a.running /\ r.prov = a.prov /\ r.lived = a.lived
      /\ r.pending = a.pending /\ r.loaded = a.loaded /\ r.source = a.source
      /\ r.look = a.look /\ r.recovery = a.recovery
      /\ r.mayPortable = a.mayPortable /\ r.mayLocal = a.mayLocal
      /\ r.source \in Panes \union {None} /\ r.look \in Panes \union {None}
  BY <1>3, <1>9, AppFacts DEF Apps, Phases
<1>11. ProcessOK(r) BY <1>3, <1>10 DEF ProcessOK
<1>12. FilesOK(p, r)' BY <1>1, <1>3, <1>6, <1>10 DEF FilesOK
<1>13. QED BY <1>1, <1>2, <1>6, <1>7, <1>8, <1>9, <1>11, <1>12, ProcessStep

LEMMA PublishInv == ASSUME RestartInv, NEW p \in Panes, Publish(p) PROVE RestartInv'
<1>1. /\ app[p].phase = "publish" /\ UNCHANGED <<pane, alive, file, portable>>
      /\ app' = [app EXCEPT ![p] = [app[p] EXCEPT !.phase = "core", !.soft = TRUE]]
      /\ handoff' = handoff \/ (p \in Managed /\ handoff' = p)
  BY DEF Publish, At, Set, MayFail
<1>2. PICK a : a = app[p] OBVIOUS
<1>3. a \in Apps /\ ProcessOK(a) /\ FilesOK(p, a) /\ a.phase = "publish"
  BY <1>1, <1>2, InvFacts
<1>4. pane[p] = "live" BY <1>3 DEF FilesOK
<1>5. DiskOK' /\ PanesOK' BY <1>1, <1>4 DEF RestartInv, DiskOK, PanesOK
<1>6. PICK r : r = [a EXCEPT !.phase = "core", !.soft = TRUE] OBVIOUS
<1>7. /\ r \in Apps /\ r.phase = "core" /\ r.shown = a.shown
      /\ r.running = a.running /\ r.prov = a.prov /\ r.lived = a.lived
      /\ r.pending = a.pending /\ r.loaded = a.loaded /\ r.source = a.source
      /\ r.look = a.look /\ r.recovery = a.recovery
      /\ r.mayPortable = a.mayPortable /\ r.mayLocal = a.mayLocal
  BY <1>3, <1>6 DEF Apps, Phases
<1>8. ProcessOK(r) /\ FilesOK(p, r)'
  BY <1>1, <1>3, <1>7 DEF ProcessOK, FilesOK
<1>9. QED BY <1>1, <1>2, <1>5, <1>6, <1>8, ProcessStep

\* The ends.
LeavesSoft(a, soft) == [a EXCEPT !.phase = "outer", !.soft = soft]
LEMMA CoreInv == ASSUME RestartInv, NEW p \in Panes, Core(p) PROVE RestartInv'
<1>1. app[p].phase = "core" /\ UNCHANGED <<pane, file, portable, handoff>>
  BY DEF Core, At, disk
<1>2. PICK closed \in BOOLEAN :
        /\ alive' = alive \ Doomed(p, closed)
        /\ app' = [app EXCEPT ![p] = LeavesSoft(app[p], app[p].soft \/ ~closed)]
  BY DEF Core, Set, LeavesSoft
<1>3. alive' \in AgentSets BY <1>2, InvFacts DEF AgentSets
<1>4. PICK a : a = app[p] OBVIOUS
<1>5. a \in Apps /\ ProcessOK(a) /\ FilesOK(p, a) /\ a.phase = "core"
  BY <1>1, <1>4, InvFacts
<1>6. PICK b : b = (app[p].soft \/ ~closed) OBVIOUS
<1>7. b \in BOOLEAN BY <1>6
<1>8. PICK r : r = LeavesSoft(a, b) OBVIOUS
<1>9. /\ r \in Apps /\ r.phase = "outer" /\ r.shown = a.shown
      /\ r.running = a.running /\ r.prov = a.prov /\ r.lived = a.lived
      /\ r.pending = a.pending /\ r.loaded = a.loaded /\ r.source = a.source
      /\ r.look = a.look /\ r.recovery = a.recovery
      /\ r.mayPortable = a.mayPortable /\ r.mayLocal = a.mayLocal
  BY <1>5, <1>7, <1>8 DEF Apps, Phases, LeavesSoft
<1>10. ProcessOK(r) /\ FilesOK(p, r) BY <1>1, <1>5, <1>9 DEF ProcessOK, FilesOK
<1>11. QED BY <1>1, <1>2, <1>3, <1>4, <1>6, <1>8, <1>10, QuietStep

\* A process that is gone, whether or not its pane goes too.
LEMMA GoneInv ==
    ASSUME RestartInv, NEW p \in Panes, NEW x \in {pane[p], "dead"},
           pane' = [pane EXCEPT ![p] = x], app' = [app EXCEPT ![p] = Off],
           pane[p] = "live", UNCHANGED <<alive, file, portable, handoff>>
    PROVE  RestartInv'
<1>1. /\ pane' \in [Panes -> {"absent", "live", "dead"}] /\ pane'[p] \in {"live", "dead"}
      /\ \A q \in Panes \ {p} : pane'[q] = pane[q]
  BY DEF RestartInv, DiskOK
<1>2. DiskOK' BY <1>1 DEF RestartInv, DiskOK
<1>3. PanesOK'
  <2>1. \A q \in Panes : pane'[q] = "live" => pane[q] = "live" BY <1>1
  <2>2. \A q \in Panes : pane'[q] = "absent" => pane[q] = "absent" BY <1>1
  <2>3. handoff # None => handoff \in Panes BY InvFacts, SubsetAssumption
  <2>4. Managed \subseteq Panes BY SubsetAssumption
  <2>5. QED BY <2>1, <2>2, <2>3, <2>4 DEF RestartInv, PanesOK
<1>4. FilesOK(p, Off)' BY OffFacts DEF FilesOK
<1>5. QED BY <1>1, <1>2, <1>3, <1>4, OffFacts, ProcessStep

LEMMA EndInv ==
    ASSUME RestartInv, NEW p \in Panes, Outer(p) \/ Crash(p) \/ ClosePane(p)
    PROVE  RestartInv'
<1>1. UNCHANGED <<alive, file, portable, handoff>> /\ app' = [app EXCEPT ![p] = Off]
  BY DEF Outer, Crash, ClosePane, Ended, disk
<1>2. pane[p] = "live" BY InvFacts DEF Outer, Crash, ClosePane, At, FilesOK
<1>3. \E x \in {pane[p], "dead"} : pane' = [pane EXCEPT ![p] = x]
  BY DEF Outer, Crash, ClosePane, Ended
<1>4. QED BY <1>1, <1>2, <1>3, GoneInv

LEMMA AgentEndsInv == ASSUME RestartInv, NEW b, AgentEnds(b) PROVE RestartInv'
<1>1. /\ UNCHANGED <<pane, file, portable, handoff, app>> /\ alive' = alive \ {b}
  BY DEF AgentEnds, disk
<1>2. DiskOK' /\ PanesOK'
  BY <1>1 DEF RestartInv, DiskOK, PanesOK, AgentSets
<1>3. QED BY <1>1, <1>2 DEF RestartInv, FilesOK

LEMMA WeekFacts ==
    ASSUME NEW f \in Instances, NEW g, g = [f EXCEPT !.week = TRUE]
    PROVE  g \in Files /\ g # None /\ g.newer = f.newer
<1>1. g \in Instances /\ g.newer = f.newer BY DEF Instances
<1>2. QED BY <1>1, DistinctAssumption DEF Files

LEMMA WeekInv ==
    ASSUME RestartInv, WeekPasses
    PROVE  /\ RestartInv' /\ \A q \in Panes : file'[q] = None <=> file[q] = None
<1>1. /\ UNCHANGED <<pane, alive, portable, handoff, app>>
      /\ file' = [q \in Panes |-> IF file[q] = None THEN None
                                  ELSE [file[q] EXCEPT !.week = TRUE]]
  BY DEF WeekPasses
<1>2. ASSUME NEW q \in Panes
      PROVE  /\ file'[q] \in Files /\ (Newer(file'[q]) => Newer(file[q]))
             /\ file'[q] = None <=> file[q] = None
  <2>1. CASE file[q] = None BY <1>1, <2>1 DEF Files, Newer
  <2>2. CASE file[q] # None
    <3>1. PICK f : f = file[q] OBVIOUS
    <3>2. f \in Instances BY <2>2, <3>1, InvFacts DEF Files
    <3>3. file'[q] = [f EXCEPT !.week = TRUE] BY <1>1, <2>2, <3>1
    <3>4. QED BY <2>2, <3>1, <3>2, <3>3, WeekFacts DEF Newer
  <2>3. QED BY <2>1, <2>2
<1>3. file' \in [Panes -> Files] BY <1>1, <1>2
<1>4. DiskOK' /\ PanesOK' BY <1>1, <1>2, <1>3 DEF RestartInv, DiskOK, PanesOK
<1>5. ASSUME NEW p \in Panes PROVE FilesOK(p, app[p])'
  <2>1. /\ app[p].source \in Panes \union {None} /\ app[p].look \in Panes \union {None}
        /\ FilesOK(p, app[p])
    BY InvFacts, AppFacts
  <2>2. QED BY <1>1, <1>2, <2>1 DEF FilesOK
<1>6. QED BY <1>1, <1>2, <1>4, <1>5 DEF RestartInv

LEMMA InitRestart == Init => RestartInv
<1> SUFFICES ASSUME Init PROVE RestartInv
  OBVIOUS
<1>1. PICK first \in Firsts : file = first[1] /\ portable = first[2] /\ alive = first[3]
  BY DEF Init
<1>2. /\ handoff = None /\ app = [p \in Panes |-> Off]
      /\ pane = [p \in Panes |-> IF p \in Managed THEN "absent" ELSE "live"]
  BY DEF Init
<1>3. DiskOK BY <1>1, <1>2, FirstsAssumption DEF DiskOK, AgentSets
<1>4. PanesOK
  <2>1. \A p \in Managed : pane[p] = "absent" BY <1>2, SubsetAssumption
  <2>2. \A p \in Panes : pane[p] = "absent" => file[p] = None
    BY <1>1, <1>2, FirstsAssumption
  <2>3. QED BY <1>2, <2>1, <2>2 DEF PanesOK
<1>5. Off \in Apps BY OffFacts DEF ProcessOK
<1>6. \A p \in Panes : app[p] = Off /\ FilesOK(p, Off)
  BY <1>2, OffFacts DEF FilesOK
<1>7. QED BY <1>2, <1>3, <1>4, <1>5, <1>6, OffFacts DEF RestartInv

LEMMA NextRestart == RestartInv /\ [Next]_vars => RestartInv'
<1> SUFFICES ASSUME RestartInv, [Next]_vars PROVE RestartInv'
  OBVIOUS
<1>1. ASSUME NEW p \in Panes, Step(p) PROVE RestartInv'
  BY <1>1, ReadPortableInv, ReadLocalInv, SweepInv, SweepOneInv, DiscoverInv,
     UnlinkInv, ClearHandoffInv, SavePortableInv, SaveLocalInv, PublishInv, CoreInv,
     EndInv
  DEF Step
<1>2. ASSUME NEW p \in Panes, Tick(p) PROVE RestartInv'
  BY <1>2, SettleInv, StaysPendingInv, ProbeFailsInv, RestoreInv, RestoreRaisesInv
  DEF Tick
<1>3. ASSUME NEW p \in Panes, User(p) PROVE RestartInv'
  BY <1>3, StartInv, QuitInv, HardQuitInv, ShowInv DEF User
<1>4. CASE World
  BY <1>4, EndInv, IndexPublishesInv, AgentEndsInv, WeekInv DEF World
<1>5. CASE UNCHANGED vars
  BY <1>5 DEF vars, disk, RestartInv, DiskOK, PanesOK, FilesOK
<1>6. QED BY <1>1, <1>2, <1>3, <1>4, <1>5 DEF Next

LEMMA RestartAlways == Spec => []RestartInv
BY InitRestart, NextRestart, PTL DEF Spec

-----------------------------------------------------------------------------
(* The theorems *)

\* The types; in particular only a live pane has a process, and at most one pane of
\* the managed session is alive, whatever is killed, closed and started again.
THEOREM RestartTypes == Spec => []TypeOK
<1>1. ASSUME RestartInv PROVE TypeOK
  <2>1. /\ pane \in [Panes -> {"absent", "live", "dead"}] /\ alive \subseteq Agents
        /\ file \in [Panes -> Files] /\ portable \in PortableFiles
        /\ handoff \in Managed \union {None}
    BY <1>1 DEF RestartInv, DiskOK, AgentSets
  <2>2. ASSUME NEW p \in Panes
        PROVE  /\ app[p].phase \in Phases /\ app[p].then \in Phases
               /\ app[p].shown \in Workspaces /\ app[p].running \subseteq Agents
               /\ app[p].pending \in Files \union PortableFiles
               /\ app[p].loaded \in Files
               /\ app[p].recovery \in {"ok", "pending", "failed"}
               /\ app[p].gen \in {"none", "new", "tried"}
               /\ app[p].prov \subseteq app[p].running
               /\ app[p].phase # "off" => pane[p] = "live"
    BY <1>1, InvFacts, AppFacts DEF ProcessOK, FilesOK, Phases, AgentSets, States
  <2>3. Cardinality({p \in Managed : pane[p] = "live"}) <= 1
    <3> DEFINE S == {p \in Managed : pane[p] = "live"}
    <3>1. \A p, q \in S : p = q BY <1>1 DEF RestartInv, PanesOK
    <3>2. S = {} \/ \E p \in S : S = {p} BY <3>1
    <3> HIDE DEF S
    <3>3. Cardinality(S) \in {0, 1} BY <3>2, FS_EmptySet, FS_Singleton
    <3>4. QED BY <3>3 DEF S
  <2>4. QED BY <2>1, <2>2, <2>3 DEF TypeOK
<1>2. QED BY <1>1, RestartAlways, PTL

\* A window restores its own file; a managed one may take over that of a managed
\* pane that is dead.  No query need be trusted for this: the pane that a handoff
\* names once lived, and one managed pane lives at a time.
THEOREM OwnFile == Spec => []OwnOrInherited
<1>1. ASSUME RestartInv PROVE OwnOrInherited
  BY <1>1, InvFacts DEF OwnOrInherited, FilesOK
<1>2. QED BY <1>1, RestartAlways, PTL

\* Who may remove a file.
LEMMA Removal ==
    ASSUME RestartInv, [Next]_vars, NEW q \in Panes, file[q] # None, file'[q] = None
    PROVE  \E p \in Panes : \/ Unlink(p) /\ app[p].source = q
                            \/ SweepOne(p) /\ app[p].look = q /\ OwnerGone(q)
<1>1. ASSUME NEW p \in Panes, SaveLocal(p) PROVE FALSE
  <2>1. \/ file' = file
        \/ \E x \in Targets(app[p].shown) :
             file' = [file EXCEPT ![p] = Instance(app[p].shown, x, app[p].running, FALSE)]
    BY <1>1 DEF SaveLocal, MayFail
  <2>2. ASSUME NEW x \in Targets(app[p].shown), NEW f,
               f = Instance(app[p].shown, x, app[p].running, FALSE)
        PROVE  f # None
    BY <2>2, InvFacts, AppFacts, SavedFacts, DistinctAssumption
  <2>3. file' = file \/ \E f : f # None /\ file' = [file EXCEPT ![p] = f] BY <2>1, <2>2
  <2>4. QED BY <2>3 DEF RestartInv, DiskOK
<1>2. ASSUME NEW p \in Panes, Unlink(p) PROVE app[p].source = q
  <2>1. file' = file \/ file' = [file EXCEPT ![app[p].source] = None]
    BY <1>2 DEF Unlink, MayFail
  <2>2. QED BY <2>1 DEF RestartInv, DiskOK
<1>3. ASSUME NEW p \in Panes, SweepOne(p) PROVE app[p].look = q /\ OwnerGone(q)
  <2>1. \/ file' = file
        \/ file' = [file EXCEPT ![app[p].look] = None] /\ OwnerGone(app[p].look)
    BY <1>3 DEF SweepOne, MayFail
  <2>2. QED BY <2>1 DEF RestartInv, DiskOK
<1>4. ~WeekPasses BY WeekInv
<1>5. \A p \in Panes : ~(\/ Start(p) \/ ReadPortable(p) \/ ReadLocal(p) \/ Sweep(p)
                         \/ Discover(p) \/ IndexPublishes(p) \/ Settle(p)
                         \/ StaysPending(p) \/ ProbeFails(p) \/ Restore(p)
                         \/ RestoreRaises(p) \/ ClearHandoff(p) \/ AskQuit(p)
                         \/ Cancel(p) \/ SoftQuit(p) \/ HardQuit(p) \/ SavePortable(p)
                         \/ Publish(p) \/ Core(p) \/ Outer(p) \/ Crash(p)
                         \/ ClosePane(p))
  BY DEF Start, ReadPortable, ReadLocal, Sweep, Discover, IndexPublishes, Settle,
         StaysPending, ProbeFails, Restore, RestoreRaises, ClearHandoff, AskQuit, Cancel, SoftQuit, HardQuit,
         SavePortable, Publish, Core, Outer, Crash, ClosePane, disk
<1>6. \A p \in Panes, s \in Slots, c \in Contents : ~Show(p, s, c)
  BY DEF Show, disk
<1>7. \A b \in Agents : ~AgentEnds(b) BY DEF AgentEnds, disk
<1>8. ~UNCHANGED vars BY DEF vars
<1>9. QED
  BY <1>1, <1>2, <1>3, <1>4, <1>5, <1>6, <1>7, <1>8
  DEF Next, Step, Tick, User, World

LEMMA RemovalWhen ==
    ASSUME RestartInv, [Next]_vars, ~QueryFails, NEW q \in Panes, file[q] # None,
           file'[q] = None
    PROVE  \/ \E p \in Panes : app[p].phase = "unlink" /\ app[p].source = q
           \/ pane[q] = "dead"
<1>1. PICK p \in Panes : \/ Unlink(p) /\ app[p].source = q
                         \/ SweepOne(p) /\ app[p].look = q /\ OwnerGone(q)
  BY Removal
<1>2. CASE Unlink(p) /\ app[p].source = q BY <1>2 DEF Unlink, At
<1>3. CASE OwnerGone(q)
  <2>1. pane[q] # "live" BY <1>3 DEF OwnerGone, Unseen
  <2>2. pane[q] # "absent" BY DEF RestartInv, PanesOK
  <2>3. QED BY <2>1, <2>2, InvFacts
<1>4. QED BY <1>1, <1>2, <1>3

\* Nothing is forgotten: a process removes the file that it started from only when
\* its whole workspace is on display and every agent that it binds and that lived is
\* represented; the file of another pane goes only when that pane is dead.  That a
\* query about a pane does not fail is needed: a failed one reads as a dead owner.
THEOREM FilesServeTheirTurn == ~QueryFails => (Spec => NothingForgotten)
<1> SUFFICES ASSUME ~QueryFails PROVE Spec => NothingForgotten
  OBVIOUS
<1> DEFINE Serves ==
             \A q \in Panes : (file[q] # None /\ file'[q] = None) =>
               \/ \E p \in Panes :
                   /\ app[p].phase = "unlink" /\ app[p].source = q
                   /\ app[p].shown = app[p].loaded.slots
                   /\ app[p].loaded.bindings \intersect app[p].lived
                        \subseteq app[p].running
               \/ pane[q] = "dead"
<1>1. ASSUME RestartInv, [Next]_vars, NEW q \in Panes, file[q] # None, file'[q] = None
      PROVE  \/ \E p \in Panes :
                  /\ app[p].phase = "unlink" /\ app[p].source = q
                  /\ app[p].shown = app[p].loaded.slots
                  /\ app[p].loaded.bindings \intersect app[p].lived
                       \subseteq app[p].running
             \/ pane[q] = "dead"
  <2>1. CASE \E p \in Panes : app[p].phase = "unlink" /\ app[p].source = q
    <3>1. PICK p \in Panes : app[p].phase = "unlink" /\ app[p].source = q BY <2>1
    <3>2. /\ app[p].shown = app[p].loaded.slots
          /\ app[p].lived \subseteq app[p].running
      BY <1>1, <3>1, InvFacts DEF ProcessOK
    <3>3. QED BY <3>1, <3>2
  <2>2. CASE pane[q] = "dead" BY <2>2
  <2>3. QED BY <1>1, <2>1, <2>2, RemovalWhen
<1>2. RestartInv /\ [Next]_vars => [Serves]_vars BY <1>1
<1>3. QED BY <1>2, RestartAlways, PTL DEF Spec, NothingForgotten

\* The cleanup of one window leaves the file of every pane that is alive, whether
\* or not a process runs in it, as does the restoration of an inherited file.
THEOREM LiveOwnersKeepFiles == ~QueryFails => (Spec => LiveFilesKept)
<1> SUFFICES ASSUME ~QueryFails PROVE Spec => LiveFilesKept
  OBVIOUS
<1> DEFINE Kept ==
             \A q \in Panes :
               (file[q] # None /\ file'[q] = None /\ pane[q] = "live")
                 => app[q].phase = "unlink"
<1>1. ASSUME RestartInv, [Next]_vars, NEW q \in Panes, file[q] # None, file'[q] = None,
             pane[q] = "live"
      PROVE  app[q].phase = "unlink"
  <2>1. PICK p \in Panes : app[p].phase = "unlink" /\ app[p].source = q
    BY <1>1, RemovalWhen
  <2>2. p = q \/ pane[q] = "dead"
    BY <1>1, <2>1, InvFacts, DistinctAssumption DEF FilesOK
  <2>3. QED BY <1>1, <2>1, <2>2
<1>2. RestartInv /\ [Next]_vars => [Kept]_vars BY <1>1
<1>3. QED BY <1>2, RestartAlways, PTL DEF Spec, LiveFilesKept

\* Who may write the portable file, an instance file, and what a window shows.
LEMMA PortableNewer ==
    ASSUME RestartInv, portable # None, ~Readable(portable) PROVE Newer(portable)
BY ReadableFacts DEF RestartInv, DiskOK, States

LEMMA PortableSame ==
    ASSUME [Next]_vars
    PROVE  portable' = portable \/ \E p \in Panes : ReadPortable(p) \/ SavePortable(p)
<1>1. ASSUME NEW p \in Panes, Step(p) PROVE portable' = portable \/ ReadPortable(p) \/ SavePortable(p)
  BY <1>1 DEF Step, ReadLocal, Sweep, SweepOne, Discover, Unlink, ClearHandoff,
     SaveLocal, Publish, Core, Outer, disk
<1>2. ASSUME NEW p \in Panes, Tick(p) PROVE portable' = portable
  BY <1>2 DEF Tick, Settle, StaysPending, ProbeFails, Restore, RestoreRaises, disk
<1>3. ASSUME NEW p \in Panes, User(p) PROVE portable' = portable
  BY <1>3 DEF User, Start, AskQuit, Cancel, SoftQuit, HardQuit, Show, disk
<1>4. ASSUME World PROVE portable' = portable
  BY <1>4 DEF World, Crash, ClosePane, IndexPublishes, AgentEnds, WeekPasses, disk
<1>5. QED BY <1>1, <1>2, <1>3, <1>4 DEF Next, vars

LEMMA FileSame ==
    ASSUME [Next]_vars
    PROVE  \/ file' = file \/ WeekPasses
           \/ \E p \in Panes : Unlink(p) \/ SweepOne(p) \/ SaveLocal(p)
<1>1. ASSUME NEW p \in Panes, Step(p)
      PROVE  file' = file \/ Unlink(p) \/ SweepOne(p) \/ SaveLocal(p)
  BY <1>1 DEF Step, ReadPortable, ReadLocal, Sweep, Discover, ClearHandoff,
     SavePortable, Publish, Core, Outer, disk
<1>2. ASSUME NEW p \in Panes, Tick(p) PROVE file' = file
  BY <1>2 DEF Tick, Settle, StaysPending, ProbeFails, Restore, RestoreRaises, disk
<1>3. ASSUME NEW p \in Panes, User(p) PROVE file' = file
  BY <1>3 DEF User, Start, AskQuit, Cancel, SoftQuit, HardQuit, Show, disk
<1>4. ASSUME World PROVE file' = file \/ WeekPasses
  BY <1>4 DEF World, Crash, ClosePane, IndexPublishes, AgentEnds, disk
<1>5. QED BY <1>1, <1>2, <1>3, <1>4 DEF Next, vars

LEMMA ShownIn == ASSUME NEW a \in Apps PROVE "shown" \in DOMAIN a
BY DEF Apps

\* All but Show and Restore leave what a window shows, or end its process.
LEMMA ShownSame ==
    ASSUME RestartInv, [Next]_vars, NEW p \in Panes
    PROVE  \/ app'[p].shown = app[p].shown \/ app'[p] = Off \/ Restore(p)
           \/ \E s \in Slots, c \in Contents : Show(p, s, c)
<1> DEFINE Same == app'[p].shown = app[p].shown \/ app'[p] = Off
<1>1. app \in [Panes -> Apps] BY DEF RestartInv
<1>2. PICK a : a = app[p] OBVIOUS
<1>3. "shown" \in DOMAIN a BY <1>1, <1>2, ShownIn
<1>4. ASSUME NEW r, app' = [app EXCEPT ![p] = r], r.shown = a.shown \/ r = Off
      PROVE  Same
  BY <1>1, <1>2, <1>4
<1>5. ASSUME NEW q \in Panes, NEW r, app' = [app EXCEPT ![q] = r], q # p
      PROVE  Same
  BY <1>1, <1>5
<1>6. ASSUME Start(p) PROVE Same
  <2>1. app' = [app EXCEPT ![p] = [a EXCEPT !.phase = "portable"]]
    BY <1>2, <1>6 DEF Start, Set
  <2>2. [a EXCEPT !.phase = "portable"].shown = a.shown BY <1>3
  <2>3. QED BY <1>4, <2>1, <2>2
<1>7. ASSUME ReadPortable(p) PROVE Same
  <2>1. PICK b : b = (portable = None \/ Readable(portable)) OBVIOUS
  <2>2. PICK x : app' = [app EXCEPT ![p] = PortableTaken(app[p], b, x)]
    <3>1. CASE portable = None /\ Legacy
      <4>1. app' = [app EXCEPT ![p] = PortableTaken(app[p], b, Portable(None, FALSE))]
        BY <1>7, <2>1, <3>1 DEF ReadPortable, Set, PortableTaken
      <4>2. QED BY <4>1
    <3>2. CASE ~(portable = None /\ Legacy)
      <4> DEFINE found == IF Readable(portable) THEN portable ELSE None
      <4>1. app' = [app EXCEPT ![p] = PortableTaken(app[p], b, found)]
        BY <1>7, <2>1, <3>2 DEF ReadPortable, Set, PortableTaken
      <4>2. QED BY <4>1
    <3>3. QED BY <3>1, <3>2
  <2>3. PortableTaken(a, b, x).shown = a.shown BY <1>3 DEF PortableTaken
  <2>4. QED BY <1>2, <1>4, <2>2, <2>3
<1>8. ASSUME ReadLocal(p) PROVE Same
  <2>1. PICK b : b = (file[p] = None \/ Readable(file[p])) OBVIOUS
  <2>2. \/ \E q \in Panes : app' = [app EXCEPT ![p] = LocalTaken(app[p], b, q, file[q])]
        \/ app' = [app EXCEPT ![p] = NothingTaken(app[p], b)]
    BY <1>8, <2>1, Zenon DEF ReadLocal, Set, LocalTaken, NothingTaken
  <2>3. ASSUME NEW q, NEW f PROVE LocalTaken(a, b, q, f).shown = a.shown
    BY <1>3 DEF LocalTaken
  <2>4. NothingTaken(a, b).shown = a.shown BY <1>3 DEF NothingTaken
  <2>5. QED BY <1>2, <1>4, <2>2, <2>3, <2>4
<1>9. ASSUME Sweep(p) PROVE Same
  <2>1. \/ \E q \in Panes :
             app' = [app EXCEPT ![p] = [a EXCEPT !.look = q, !.swept = @ \union {q}]]
        \/ app' = [app EXCEPT ![p] = [a EXCEPT !.phase = a.then, !.swept = {}]]
    BY <1>2, <1>9 DEF Sweep, Set
  <2>2. ASSUME NEW q PROVE [a EXCEPT !.look = q, !.swept = @ \union {q}].shown = a.shown
    BY <1>3
  <2>3. [a EXCEPT !.phase = a.then, !.swept = {}].shown = a.shown BY <1>3
  <2>4. ASSUME NEW q \in Panes,
               app' = [app EXCEPT ![p] = [a EXCEPT !.look = q, !.swept = @ \union {q}]]
        PROVE  Same
    <3>1. PICK r : r = [a EXCEPT !.look = q, !.swept = @ \union {q}] OBVIOUS
    <3>2. r.shown = a.shown BY <2>2, <3>1
    <3>3. QED BY <1>4, <2>4, <3>1, <3>2
  <2>5. QED BY <1>4, <2>1, <2>3, <2>4
<1>10. ASSUME SweepOne(p) PROVE Same
  <2>1. app' = [app EXCEPT ![p] = [a EXCEPT !.look = None]]
    BY <1>2, <1>10 DEF SweepOne, Set
  <2>2. [a EXCEPT !.look = None].shown = a.shown BY <1>3
  <2>3. QED BY <1>4, <2>1, <2>2
<1>11. ASSUME Discover(p) PROVE Same
  <2>1. PICK f, t, i, g, k :
          app' = [app EXCEPT ![p] = Discovered(app[p], f, t, i, g, k)]
    BY <1>11, DiscoverCases
  <2>2. Discovered(a, f, t, i, g, k).shown = a.shown BY <1>3 DEF Discovered
  <2>3. QED BY <1>2, <1>4, <2>1, <2>2
<1>12. ASSUME IndexPublishes(p) PROVE Same
  <2>1. app' = [app EXCEPT ![p] = [a EXCEPT !.gen = "new"]]
    BY <1>2, <1>12 DEF IndexPublishes, Set
  <2>2. [a EXCEPT !.gen = "new"].shown = a.shown BY <1>3
  <2>3. QED BY <1>4, <2>1, <2>2
<1>13. ASSUME Settle(p) PROVE Same
  <2>1. PICK f, t, s : app' = [app EXCEPT ![p] = Resettled(app[p], f, t, s)]
    BY <1>13, Zenon DEF Settle, Set, Resettled
  <2>2. Resettled(a, f, t, s).shown = a.shown BY <1>3 DEF Resettled
  <2>3. QED BY <1>2, <1>4, <2>1, <2>2
<1>14. ASSUME StaysPending(p) PROVE Same
  <2>1. PICK f, i : app' = [app EXCEPT ![p] = Retained(app[p], f, i)]
    BY <1>14, Zenon DEF StaysPending, Set, Retained
  <2>2. Retained(a, f, i).shown = a.shown BY <1>3 DEF Retained
  <2>3. QED BY <1>2, <1>4, <2>1, <2>2
<1>15. ASSUME ProbeFails(p) PROVE Same
  BY <1>15 DEF ProbeFails
<1>16. ASSUME RestoreRaises(p) PROVE Same
  <2>1. app' = [app EXCEPT ![p] = [a EXCEPT !.pending = None, !.phase = "core", !.source = None, !.loaded = None]]
    BY <1>2, <1>16 DEF RestoreRaises, Set
  <2>2. [a EXCEPT !.pending = None, !.phase = "core", !.source = None, !.loaded = None].shown = a.shown BY <1>3
  <2>3. QED BY <1>4, <2>1, <2>2
<1>17. ASSUME Unlink(p) PROVE Same
  <2>1. app' = [app EXCEPT ![p] = [a EXCEPT !.phase = "clear"]]
    BY <1>2, <1>17 DEF Unlink, Set
  <2>2. [a EXCEPT !.phase = "clear"].shown = a.shown BY <1>3
  <2>3. QED BY <1>4, <2>1, <2>2
<1>18. ASSUME ClearHandoff(p) PROVE Same
  <2>1. app' = [app EXCEPT ![p] = [a EXCEPT !.phase = "up", !.source = None, !.loaded = None]]
    BY <1>2, <1>18 DEF ClearHandoff, Set
  <2>2. [a EXCEPT !.phase = "up", !.source = None, !.loaded = None].shown = a.shown BY <1>3
  <2>3. QED BY <1>4, <2>1, <2>2
<1>19. ASSUME AskQuit(p) PROVE Same
  <2>1. app' = [app EXCEPT ![p] = [a EXCEPT !.phase = "save", !.then = "up", !.dialog = TRUE]]
    BY <1>2, <1>19 DEF AskQuit, Set
  <2>2. [a EXCEPT !.phase = "save", !.then = "up", !.dialog = TRUE].shown = a.shown BY <1>3
  <2>3. QED BY <1>4, <2>1, <2>2
<1>20. ASSUME Cancel(p) PROVE Same
  <2>1. app' = [app EXCEPT ![p] = [a EXCEPT !.dialog = FALSE]]
    BY <1>2, <1>20 DEF Cancel, Set
  <2>2. [a EXCEPT !.dialog = FALSE].shown = a.shown BY <1>3
  <2>3. QED BY <1>4, <2>1, <2>2
<1>21. ASSUME SoftQuit(p) PROVE Same
  <2>1. app' = [app EXCEPT ![p] = [a EXCEPT !.phase = "save", !.then = "publish"]]
    BY <1>2, <1>21 DEF SoftQuit, Set
  <2>2. [a EXCEPT !.phase = "save", !.then = "publish"].shown = a.shown BY <1>3
  <2>3. QED BY <1>4, <2>1, <2>2
<1>22. ASSUME HardQuit(p) PROVE Same
  <2>1. app' = [app EXCEPT ![p] = [a EXCEPT !.phase = "core", !.pending = None]]
    BY <1>2, <1>22 DEF HardQuit, Set
  <2>2. [a EXCEPT !.phase = "core", !.pending = None].shown = a.shown BY <1>3
  <2>3. QED BY <1>4, <2>1, <2>2
<1>23. ASSUME SavePortable(p) PROVE Same
  <2>1. app' = [app EXCEPT ![p] = [a EXCEPT !.phase = "saveLocal"]]
    BY <1>2, <1>23 DEF SavePortable, Set
  <2>2. [a EXCEPT !.phase = "saveLocal"].shown = a.shown BY <1>3
  <2>3. QED BY <1>4, <2>1, <2>2
<1>24. ASSUME SaveLocal(p) PROVE Same
  <2>1. app' = [app EXCEPT ![p] = [a EXCEPT !.phase = "sweep"]]
    BY <1>2, <1>24 DEF SaveLocal, Set
  <2>2. [a EXCEPT !.phase = "sweep"].shown = a.shown BY <1>3
  <2>3. QED BY <1>4, <2>1, <2>2
<1>25. ASSUME Publish(p) PROVE Same
  <2>1. app' = [app EXCEPT ![p] = [a EXCEPT !.phase = "core", !.soft = TRUE]]
    BY <1>2, <1>25 DEF Publish, Set
  <2>2. [a EXCEPT !.phase = "core", !.soft = TRUE].shown = a.shown BY <1>3
  <2>3. QED BY <1>4, <2>1, <2>2
<1>26. ASSUME Core(p) PROVE Same
  <2>1. \E x : app' = [app EXCEPT ![p] = [a EXCEPT !.phase = "outer", !.soft = x]]
    BY <1>2, <1>26 DEF Core, Set
  <2>2. \A x : [a EXCEPT !.phase = "outer", !.soft = x].shown = a.shown BY <1>3
  <2>3. QED BY <1>4, <2>1, <2>2
<1>27. ASSUME Outer(p) \/ Crash(p) \/ ClosePane(p) PROVE Same
  BY <1>4, <1>27 DEF Outer, Crash, ClosePane, Ended
<1>28. ASSUME NEW q \in Panes, q # p,
             Step(q) \/ Tick(q) \/ User(q) \/ Crash(q) \/ ClosePane(q) \/ IndexPublishes(q)
      PROVE  Same
  <2>1. Restore(q) \/ app' = app \/ \E r : app' = [app EXCEPT ![q] = r]
    BY <1>28, Zenon DEF Step, Tick, User, Start, ReadPortable, ReadLocal, Sweep,
       SweepOne, Discover, IndexPublishes, Settle, StaysPending, ProbeFails, RestoreRaises, Unlink,
       ClearHandoff, Show, AskQuit, Cancel, SoftQuit, HardQuit, SavePortable,
       SaveLocal, Publish, Core, Outer, Crash, ClosePane, Ended, Set
  <2>2. app' = app \/ \E r : app' = [app EXCEPT ![q] = r] BY <2>1, RestoreCases
  <2>3. QED BY <1>5, <1>28, <2>2
<1>29. ASSUME WeekPasses \/ (\E b \in Agents : AgentEnds(b)) \/ UNCHANGED vars PROVE Same
  BY <1>29 DEF WeekPasses, AgentEnds, vars
<1>30. QED
  BY <1>6, <1>7, <1>8, <1>9, <1>10, <1>11, <1>12, <1>13, <1>14, <1>15, <1>16, <1>17,
     <1>18, <1>19, <1>20, <1>21, <1>22, <1>23, <1>24, <1>25, <1>26, <1>27, <1>28, <1>29
  DEF Next, Step, Tick, User, World

\* A saved name is no authority: a window comes to show an agent only if it lives and
\* is represented, by a discovery or by a launch of that window.
THEOREM ShownIsKnown == Spec => ShowsKnown
<1> DEFINE Known ==
             \A p \in Panes, s \in Slots : LET c == app'[p].shown[s] IN
               c \in Agents /\ c # app[p].shown[s]
                 => c \in app'[p].running /\ c \in alive'
<1>1. ASSUME RestartInv, [Next]_vars, NEW p \in Panes, NEW s \in Slots, NEW c \in Agents,
             c = app'[p].shown[s], c # app[p].shown[s]
      PROVE  c \in app'[p].running /\ c \in alive'
  <2>1. app \in [Panes -> Apps] /\ app[p] \in Apps BY <1>1 DEF RestartInv
  <2>2. c # Empty /\ c # Closed BY DistinctAssumption
  <2>3. ASSUME Restore(p) PROVE c \in app'[p].running /\ c \in alive'
    <3>1. PICK v \in Workspaces :
            /\ \A t \in Slots : v[t] = Empty \/ v[t] = Closed \/ Showable(p, v[t])
            /\ \/ app' = [app EXCEPT ![p] = AllShown(app[p], v)]
               \/ app' = [app EXCEPT ![p] = PartShown(app[p], v)]
               \/ app' = [app EXCEPT ![p] = WishShown(app[p], v)]
      BY <1>1, <2>3, RestoreCases
    <3>2. app'[p].shown = v /\ app'[p].running = app[p].running
      <4>1. \/ app'[p] = AllShown(app[p], v) \/ app'[p] = PartShown(app[p], v)
            \/ app'[p] = WishShown(app[p], v)
        BY <2>1, <3>1
      <4>2. PICK a : a = app[p] OBVIOUS
      <4>3. ASSUME NEW r, r = AllShown(a, v) \/ r = PartShown(a, v) \/ r = WishShown(a, v)
            PROVE  r.shown = v /\ r.running = a.running /\ r.prov = a.prov
        BY <2>1, <4>2, <4>3 DEF AllShown, PartShown, WishShown, Apps
      <4>4. QED BY <4>1, <4>2, <4>3
    <3>3. Showable(p, c) BY <1>1, <2>2, <3>1, <3>2
    <3>4. alive' = alive BY <1>1, <2>3, RestoreCases
    <3>5. QED BY <3>2, <3>3, <3>4 DEF Showable
  <2>4. ASSUME NEW t \in Slots, NEW x \in Contents, Show(p, t, x)
        PROVE  c \in app'[p].running /\ c \in alive'
    <3>1. /\ alive' = alive \union ({x} \intersect Agents)
          /\ app' = [app EXCEPT ![p] =
                       ShowsNow(app[p], [app[p].shown EXCEPT ![t] = x],
                                app[p].running \union ({x} \intersect Agents))]
      BY <2>4 DEF Show, Set, ShowsNow
    <3>2. PICK w, run : /\ w = [app[p].shown EXCEPT ![t] = x]
                        /\ run = app[p].running \union ({x} \intersect Agents)
      OBVIOUS
    <3>3. app' = [app EXCEPT ![p] = ShowsNow(app[p], w, run)] BY <3>1, <3>2
    <3>4. app'[p].shown = w /\ app'[p].running = run
      BY <2>1, <3>3 DEF ShowsNow, Apps
    <3>5. app[p].shown \in [Slots -> Contents] BY <2>1, AppFacts DEF Workspaces
    <3>6. c = x BY <1>1, <3>2, <3>4, <3>5
    <3>7. QED BY <3>1, <3>2, <3>4, <3>6
  <2>5. ASSUME app'[p].shown = app[p].shown \/ app'[p] = Off PROVE FALSE
    <3>1. app'[p] = Off => app'[p].shown[s] = Closed
      BY OffFacts DEF Shut
    <3>2. QED BY <1>1, <2>2, <2>5, <3>1
  <2>6. QED BY <1>1, <2>3, <2>4, <2>5, ShownSame
<1>2. RestartInv /\ [Next]_vars => [Known]_vars BY <1>1
<1>3. QED BY <1>2, RestartAlways, PTL DEF Spec, ShowsKnown

\* Files of a newer schema are never overwritten, migrated over or cleaned up; the
\* clock alone touches them.
THEOREM NewerStays == Spec => NewerKept
<1> DEFINE Stays ==
             /\ (portable # None /\ ~Readable(portable)) => portable' = portable
             /\ \A q \in Panes : (file[q] # None /\ ~Readable(file[q])) =>
                  file'[q] = file[q] \/ (file'[q] # None /\ file'[q].newer)
<1>1. ASSUME RestartInv, [Next]_vars, portable # None, ~Readable(portable)
      PROVE  portable' = portable
  <2>1. Newer(portable) BY <1>1, PortableNewer
  <2>2. ASSUME NEW p \in Panes, SavePortable(p) PROVE portable' = portable
    <3>1. ~app[p].mayPortable
      BY <1>1, <2>1, <2>2, InvFacts, AppFacts DEF SavePortable, At, FilesOK
    <3>2. QED BY <2>2, <3>1 DEF SavePortable
  <2>3. ASSUME NEW p \in Panes, ReadPortable(p) PROVE portable' = portable
    BY <1>1, <2>3 DEF ReadPortable
  <2>4. QED BY <1>1, <2>2, <2>3, PortableSame
<1>2. ASSUME RestartInv, [Next]_vars, NEW q \in Panes, file[q] # None, ~Readable(file[q])
      PROVE  file'[q] = file[q] \/ (file'[q] # None /\ file'[q].newer)
  <2>1. Newer(file[q]) BY <1>2, InvFacts, ReadableFacts
  <2>2. ASSUME NEW p \in Panes, SaveLocal(p) PROVE file'[q] = file[q]
    <3>1. p = q => ~app[p].mayLocal
      BY <1>2, <2>1, <2>2, InvFacts, AppFacts DEF SaveLocal, At, FilesOK
    <3>2. p = q => file' = file BY <2>2, <3>1 DEF SaveLocal, MayLocal
    <3>3. \/ file' = file
          \/ \E x \in Targets(app[p].shown) :
               file' = [file EXCEPT ![p] = Instance(app[p].shown, x, app[p].running, FALSE)]
      BY <2>2 DEF SaveLocal, MayFail
    <3>4. QED BY <1>2, <3>2, <3>3 DEF RestartInv, DiskOK
  <2>3. ASSUME NEW p \in Panes, Unlink(p) PROVE file'[q] = file[q]
    <3>1. app[p].source # q
      BY <1>2, <2>1, InvFacts, DistinctAssumption DEF FilesOK
    <3>2. file' = file \/ file' = [file EXCEPT ![app[p].source] = None]
      BY <2>3 DEF Unlink, MayFail
    <3>3. QED BY <1>2, <3>1, <3>2 DEF RestartInv, DiskOK
  <2>4. ASSUME NEW p \in Panes, SweepOne(p) PROVE file'[q] = file[q]
    <3>1. app[p].look # q
      BY <1>2, <2>1, InvFacts, DistinctAssumption DEF FilesOK
    <3>2. file' = file \/ file' = [file EXCEPT ![app[p].look] = None]
      BY <2>4 DEF SweepOne, MayFail
    <3>3. QED BY <1>2, <3>1, <3>2 DEF RestartInv, DiskOK
  <2>5. ASSUME WeekPasses PROVE file'[q] # None /\ file'[q].newer
    <3>1. PICK f : f = file[q] OBVIOUS
    <3>2. f \in Instances /\ f.newer
      BY <1>2, <2>1, <3>1, InvFacts DEF Files, Newer
    <3>3. file'[q] = [f EXCEPT !.week = TRUE] BY <1>2, <2>5, <3>1 DEF WeekPasses
    <3>4. QED BY <3>2, <3>3, WeekFacts
  <2>6. QED BY <1>2, <2>2, <2>3, <2>4, <2>5, FileSame
<1>3. RestartInv /\ [Next]_vars => [Stays]_vars BY <1>1, <1>2
<1>4. QED BY <1>3, RestartAlways, PTL DEF Spec, NewerKept

=============================================================================
