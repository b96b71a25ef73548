------------------------ MODULE LaunchMarkers_proofs ------------------------
(***************************************************************************)
(* TLAPS proofs about LaunchMarkers: any number of agents, panes and        *)
(* conversations, with crashes and failed commands anywhere.                *)
(***************************************************************************)
EXTENDS LaunchMarkers, TLAPS

-----------------------------------------------------------------------------
(* Who may write a marker *)

Launching == {"hold", "mark", "start", "register"}
Discovering == {"examine", "compare", "store"}
Claiming == {"compare", "store"}

\* Nobody has seen a marker of the agent.
Unknown(a) ==
    /\ mark[a] = None
    /\ \A p \in Owners : proc[p].snap[a] = None /\ reg[p][a] = None

\* A process needs its pane; an empty registry is left when it ends.
PaneOK(p) ==
    /\ Running(p) => pane[p] = "live"
    /\ ~Running(p) => \A a \in Agents : reg[p][a] = None

\* Where a launch stands: after the holder and before the marker nobody knows
\* the agent, and afterwards the marker is the one that was written.
LaunchOK(p) == proc[p].at \in Launching =>
    LET a == proc[p].agent
        e == proc[p].entry
    IN
    /\ a \in Agents /\ e \in EntryType
    /\ e.mark.owner = p /\ e.mark.phase = "launching" /\ e.key = None
    /\ (proc[p].at = "hold") = (ses[a] = "none")
    /\ proc[p].at = "mark" => Unknown(a)
    /\ proc[p].at \in {"start", "register"} /\ Alive(a) => mark[a] = e.mark

\* Who has an agent in its registry owns it, as long as it lives.
KeepsOK(p) == \A a \in Agents : reg[p][a] # None =>
    /\ reg[p][a].mark.owner = p
    /\ Alive(a) => mark[a] # None /\ mark[a].owner = p

\* The listing speaks of panes that were used, is never out of date about the
\* process's own agents, and the panes that do not live are gone.
ListingOK(p) ==
    /\ proc[p].at \notin Discovering =>
         \A a \in Agents : proc[p].snap[a] = None
    /\ \A a \in Agents : LET m == proc[p].snap[a] IN m # None =>
         /\ pane[m.owner] # "new"
         /\ m.owner = p /\ Alive(a) => mark[a] = m
         /\ proc[p].loaded /\ m.owner \notin proc[p].live
              => pane[m.owner] = "gone"
    /\ proc[p].at \in Discovering =>
         \A a \in proc[p].todo : proc[p].snap[a] # None

\* A claimant holds the lock, the owner it found absent is gone, and it writes
\* over the marker that it compared.
ClaimOK(p) == proc[p].at \in Claiming =>
    LET a == proc[p].agent IN
    /\ a \in proc[p].todo /\ lock[a] = p
    /\ pane[proc[p].snap[a].owner] = "gone"
    /\ proc[p].at = "store" /\ Alive(a) => mark[a] = proc[p].snap[a]

\* Placeholders are resolved while they are in the registry.
ResolveOK(p) == proc[p].at = "resolve" =>
    \A a \in proc[p].todo : reg[p][a] # None

ProcessOK(p) ==
    PaneOK(p) /\ LaunchOK(p) /\ KeepsOK(p) /\ ListingOK(p) /\ ClaimOK(p)
    /\ ResolveOK(p)

\* A marker is on a live session and names a pane that was used.
MarkOK(a) ==
    /\ mark[a] # None => Alive(a) /\ pane[mark[a].owner] # "new"
    /\ ses[a] = "agent" => mark[a] # None
    /\ ses[a] = "none" => Unknown(a)

\* Two launches are of two agents.
LaunchesDiffer ==
    \A p, q \in Owners :
        p # q /\ proc[p].at \in Launching /\ proc[q].at \in Launching
          => proc[p].agent # proc[q].agent

OwnerInv ==
    /\ TypeOK
    /\ \A p \in Owners : ProcessOK(p)
    /\ \A a \in Agents : MarkOK(a)
    /\ LaunchesDiffer

-----------------------------------------------------------------------------
(* Types *)

LEMMA MarkerFacts ==
    ASSUME NEW m \in MarkerType
    PROVE  /\ m # None /\ m.owner \in Owners /\ m.id \in Ids \cup {None}
           /\ m.phase \in {"launching", "unresolved", "resolved"}
           /\ (m.phase = "resolved") = (m.id \in Ids)
           /\ m.id # None => m.phase = "resolved"
           /\ \A p \in Owners : /\ Owned(m, p) \in MarkerType
                                /\ Owned(m, p).owner = p
                                /\ Owned(m, p).phase = m.phase
                                /\ Owned(m, p).id = m.id
           /\ \A s \in Ids : /\ Resolved(m, s) \in MarkerType
                             /\ Resolved(m, s).owner = m.owner
                             /\ Resolved(m, s).phase = "resolved"
                             /\ Resolved(m, s).id = s
<1>1. m # None BY RecordAssumption
<1>2. m.owner \in Owners /\ m.id \in Ids \cup {None}
      /\ m.phase \in {"launching", "unresolved", "resolved"}
      /\ (m.phase = "resolved") = (m.id \in Ids)
      /\ (m.id # None => m.phase = "resolved")
  BY NoneAssumption DEF MarkerType
<1>3. ASSUME NEW p \in Owners
      PROVE  /\ Owned(m, p) \in MarkerType /\ Owned(m, p).owner = p
             /\ Owned(m, p).phase = m.phase /\ Owned(m, p).id = m.id
  BY DEF MarkerType, Owned
<1>4. ASSUME NEW s \in Ids
      PROVE  /\ Resolved(m, s) \in MarkerType /\ Resolved(m, s).owner = m.owner
             /\ Resolved(m, s).phase = "resolved" /\ Resolved(m, s).id = s
  BY DEF MarkerType, Resolved
<1>5. QED BY <1>1, <1>2, <1>3, <1>4

LEMMA EntryFacts ==
    ASSUME NEW e \in EntryType
    PROVE  /\ e # None /\ e.mark \in MarkerType /\ e.key \in Ids \cup {None}
           /\ e.pre \in SUBSET Ids /\ e.guess \in BOOLEAN
BY RecordAssumption DEF EntryType

LEMMA ProcFacts ==
    ASSUME NEW d \in ProcType
    PROVE  /\ d.at \in Labels /\ d.agent \in Agents \cup {None}
           /\ d.entry \in EntryType \cup {None} /\ d.todo \in SUBSET Agents
           /\ d.snap \in [Agents -> MarkerType \cup {None}]
           /\ d.loaded \in BOOLEAN /\ d.live \in SUBSET Owners
           /\ d.goal \in Ids \cup {None} /\ d.sure \in BOOLEAN
BY DEF ProcType

LEMMA IdleFacts ==
    /\ Idle \in ProcType /\ Idle.at = "run" /\ Idle.agent = None
    /\ Idle.entry = None /\ Idle.todo = {} /\ Idle.goal = None
    /\ Idle.snap = [a \in Agents |-> None] /\ Idle.loaded = FALSE
    /\ Idle.live = {} /\ Idle.sure = FALSE
    /\ Down \in ProcType /\ Down.at = "down" /\ Down.agent = None
    /\ Down.snap = [a \in Agents |-> None] /\ Down.sure = FALSE
    /\ Down.loaded = FALSE
BY DEF Idle, Down, ProcType, Labels

\* What a step of one process does to the processes.
LEMMA Moves ==
    ASSUME TypeOK, NEW p \in Owners, NEW d \in ProcType,
           proc' = [proc EXCEPT ![p] = d]
    PROVE  /\ proc' \in [Owners -> ProcType] /\ proc'[p] = d
           /\ \A q \in Owners : q # p => proc'[q] = proc[q]
BY DEF TypeOK

LEMMA WriteFacts ==
    ASSUME TypeOK, NEW a \in Agents, NEW m \in MarkerType, NEW ok \in BOOLEAN,
           Write(a, m, ok)
    PROVE  /\ mark' \in [Agents -> MarkerType \cup {None}]
           /\ mark'[a] = m \/ (~ok /\ mark'[a] = mark[a])
           /\ \A b \in Agents : b # a => mark'[b] = mark[b]
           /\ faults' \in 0..MaxFaults
BY FaultsAssumption DEF TypeOK, Write, Ok, Fails

LEMMA FaultFacts ==
    ASSUME TypeOK, Ok \/ Fails
    PROVE  faults' \in 0..MaxFaults
BY FaultsAssumption DEF TypeOK, Ok, Fails

LEMMA EndSessionFacts ==
    ASSUME TypeOK, NEW a \in Agents, EndSession(a)
    PROVE  /\ ses' \in [Agents -> {"none", "holder", "agent", "gone"}]
           /\ mark' \in [Agents -> MarkerType \cup {None}]
           /\ writes' \in [Agents -> Ids \cup {None}]
           /\ old' \in [Agents -> SUBSET Ids]
           /\ ses'[a] = "gone" /\ mark'[a] = None /\ writes'[a] = None
           /\ \A b \in Agents : b # a => /\ mark'[b] = mark[b]
                                         /\ ses'[b] = ses[b]
                                         /\ writes'[b] = writes[b]
           /\ UNCHANGED <<pane, files>>
BY DEF TypeOK, EndSession

\* An entry is written: this one and no other changes.
Put(p, a, e) == reg' = [reg EXCEPT ![p][a] = e]
Changed(p, a, e) ==
    /\ reg' \in [Owners -> [Agents -> EntryType \cup {None}]]
    /\ reg'[p][a] = e
    /\ \A q \in Owners, b \in Agents :
         q # p \/ b # a => reg'[q][b] = reg[q][b]
LEMMA RegFacts ==
    ASSUME TypeOK, NEW p \in Owners, NEW a \in Agents, NEW e,
           e \in EntryType \/ e = None, Put(p, a, e)
    PROVE  Changed(p, a, e)
BY DEF TypeOK, Put, Changed

LEMMA TypesHold == OwnerInv => TypeOK
BY DEF OwnerInv

LEMMA KillRow ==
    ASSUME NEW p \in Owners, NEW a \in Agents, Kill(p, a)
    PROVE  Put(p, a, None)
BY DEF Kill, Put

LEMMA RegRowFacts ==
    ASSUME TypeOK, NEW p \in Owners, NEW r \in [Agents -> EntryType \cup {None}],
           reg' = [reg EXCEPT ![p] = r]
    PROVE  /\ reg' \in [Owners -> [Agents -> EntryType \cup {None}]]
           /\ reg'[p] = r
           /\ \A q \in Owners : q # p => reg'[q] = reg[q]
BY DEF TypeOK

-----------------------------------------------------------------------------
(* Steps seen from another process *)

\* A change of the agent's session or marker does not touch the process.
Safe(q, a) ==
    /\ reg[q][a] = None
    /\ ~(proc[q].at \in Launching /\ proc[q].agent = a)
    /\ proc[q].snap[a] # None => proc[q].snap[a].owner # q
    /\ ~(proc[q].at = "store" /\ proc[q].agent = a)

\* The process has the agent: in its registry, in its launch or in its claim.
Authority(p, a) ==
    /\ Running(p) /\ Alive(a)
    /\ \/ reg[p][a] # None
       \/ proc[p].at \in {"mark", "start", "register"} /\ proc[p].agent = a
       \/ proc[p].at = "store" /\ proc[p].agent = a

\* Whoever has an agent is the only one that its marker concerns.
LEMMA AuthorityIsSafe ==
    ASSUME OwnerInv, NEW p \in Owners, NEW q \in Owners, p # q,
           NEW a \in Agents, Authority(p, a)
    PROVE  Safe(q, a)
<1>1. /\ proc[p] \in ProcType /\ proc[q] \in ProcType
      /\ ProcessOK(p) /\ ProcessOK(q) /\ MarkOK(a) /\ LaunchesDiffer
  BY DEF OwnerInv, TypeOK
<1>2. pane[p] = "live" /\ Alive(a)
  BY <1>1 DEF Authority, ProcessOK, PaneOK
<1>3. /\ reg[q][a] # None => /\ mark[a] # None /\ mark[a].owner = q
                             /\ pane[q] = "live"
      /\ proc[q].snap[a] # None /\ proc[q].snap[a].owner = q
           => mark[a] = proc[q].snap[a] /\ pane[q] = "live"
  <2>1. Running(q) \/ (reg[q][a] = None /\ proc[q].snap[a] = None)
    BY <1>1 DEF ProcessOK, PaneOK, ListingOK, Running, Discovering
  <2>2. reg[q][a] # None => mark[a] # None /\ mark[a].owner = q
    BY <1>1, <1>2 DEF ProcessOK, KeepsOK
  <2>3. proc[q].snap[a] # None /\ proc[q].snap[a].owner = q
          => mark[a] = proc[q].snap[a]
    BY <1>1, <1>2 DEF ProcessOK, ListingOK
  <2>4. Running(q) => pane[q] = "live" BY <1>1 DEF ProcessOK, PaneOK
  <2>5. QED BY <2>1, <2>2, <2>3, <2>4
<1>4. proc[q].at \in Launching /\ proc[q].agent = a =>
        /\ proc[q].at # "hold"
        /\ proc[q].at = "mark" => Unknown(a)
        /\ proc[q].at # "mark" => mark[a] # None /\ mark[a].owner = q
  <2>1. proc[q].entry \in EntryType => proc[q].entry.mark # None
    BY EntryFacts, MarkerFacts
  <2>2. QED
    BY <1>1, <1>2, <2>1 DEF ProcessOK, LaunchOK, Launching, Alive
<1>5. proc[q].at = "store" /\ proc[q].agent = a =>
        /\ mark[a] = proc[q].snap[a] /\ mark[a] # None
        /\ pane[mark[a].owner] = "gone" /\ lock[a] = q
  BY <1>1, <1>2 DEF ProcessOK, ListingOK, ClaimOK, Claiming, Discovering
<1>6. CASE reg[p][a] # None
  <2>1. mark[a] # None /\ mark[a].owner = p
    BY <1>1, <1>2, <1>6 DEF ProcessOK, KeepsOK
  <2>2. ~Unknown(a) BY <1>6 DEF Unknown
  <2>3. QED BY <1>2, <1>3, <1>4, <1>5, <2>1, <2>2 DEF Safe, Launching
<1>7. CASE proc[p].at \in {"mark", "start", "register"} /\ proc[p].agent = a
  <2>1. ~(proc[q].at \in Launching /\ proc[q].agent = a)
    BY <1>1, <1>7 DEF LaunchesDiffer, Launching
  <2>2. CASE proc[p].at = "mark"
    <3>1. Unknown(a)
      BY <1>1, <1>7, <2>2 DEF ProcessOK, LaunchOK, Launching
    <3>2. QED BY <1>5, <2>1, <3>1 DEF Unknown, Safe
  <2>3. CASE proc[p].at # "mark"
    <3>1. proc[p].entry \in EntryType => proc[p].entry.mark # None
      BY EntryFacts, MarkerFacts
    <3>2. mark[a] # None /\ mark[a].owner = p
      BY <1>1, <1>2, <1>7, <2>3, <3>1 DEF ProcessOK, LaunchOK, Launching
    <3>3. QED BY <1>2, <1>3, <1>5, <2>1, <3>2 DEF Safe
  <2>4. QED BY <2>2, <2>3
<1>8. CASE proc[p].at = "store" /\ proc[p].agent = a
  <2>1. /\ mark[a] # None /\ pane[mark[a].owner] = "gone" /\ lock[a] = p
    BY <1>1, <1>2, <1>8
    DEF ProcessOK, ListingOK, ClaimOK, Claiming, Discovering
  <2>2. ~Unknown(a) BY <2>1 DEF Unknown
  <2>3. /\ reg[q][a] = None
        /\ proc[q].snap[a] # None => proc[q].snap[a].owner # q
        /\ ~(proc[q].at \in Launching /\ proc[q].agent = a)
    <3>1. proc[q].at \in Launching => Running(q)
      BY DEF Launching, Running
    <3>2. Running(q) => pane[q] = "live" BY <1>1 DEF ProcessOK, PaneOK
    <3>3. QED BY <1>3, <1>4, <2>1, <2>2, <3>1, <3>2
  <2>4. ~(proc[q].at = "store" /\ proc[q].agent = a) BY <1>5, <2>1
  <2>5. QED BY <2>3, <2>4 DEF Safe
<1>9. QED BY <1>6, <1>7, <1>8 DEF Authority

\* No pane becomes new, and none comes back.
PanesAge ==
    \A q \in Owners : /\ pane[q] # "new" => pane'[q] # "new"
                      /\ pane[q] = "gone" => pane'[q] = "gone"

\* What a process must be spared of.
Spared(q) ==
    /\ reg'[q] = reg[q]
    /\ \/ proc'[q] = proc[q]
       \/ proc'[q] = [proc[q] EXCEPT !.sure = FALSE]
    /\ pane[q] = "live" => pane'[q] = "live"
    /\ \A a \in Agents :
         /\ lock[a] = q => lock'[a] = q
         /\ \/ /\ Alive(a)' => Alive(a) /\ mark'[a] = mark[a]
               /\ (ses'[a] = "none") = (ses[a] = "none")
            \/ Safe(q, a)
         /\ Unknown(a) => Unknown(a)' \/ Safe(q, a)

LEMMA SparedKeeps ==
    ASSUME OwnerInv, NEW q \in Owners, PanesAge, Spared(q)
    PROVE  ProcessOK(q)'
<1> DEFINE d == proc[q]
           e == proc'[q]
<1>1. /\ proc[q] \in ProcType /\ ProcessOK(q)
      /\ reg[q] \in [Agents -> EntryType \cup {None}]
      /\ mark \in [Agents -> MarkerType \cup {None}]
  BY DEF OwnerInv, TypeOK
<1>2. /\ e.at = d.at /\ e.agent = d.agent /\ e.entry = d.entry
      /\ e.todo = d.todo /\ e.snap = d.snap /\ e.loaded = d.loaded
      /\ e.live = d.live /\ e.goal = d.goal
  BY <1>1 DEF Spared, ProcType
<1>3. /\ d.snap \in [Agents -> MarkerType \cup {None}]
      /\ d.todo \in SUBSET Agents
      /\ \A a \in Agents : d.snap[a] # None => d.snap[a].owner \in Owners
  BY <1>1, ProcFacts, MarkerFacts
<1> HIDE DEF d, e
<1>4. PaneOK(q)'
  BY <1>1, <1>2 DEF ProcessOK, PaneOK, Spared, Running, d, e
<1>5. LaunchOK(q)'
  BY <1>1, <1>2 DEF ProcessOK, LaunchOK, Launching, Spared, Safe, Alive, d, e
<1>6. KeepsOK(q)'
  BY <1>1 DEF ProcessOK, KeepsOK, Spared, Safe
<1>7. ListingOK(q)'
  BY <1>1, <1>2, <1>3
  DEF ProcessOK, ListingOK, Spared, Safe, PanesAge, d, e
<1>8. ClaimOK(q)'
  <2>1. /\ d.at \in Claiming => d.agent \in Agents /\ d.snap[d.agent] # None
    BY <1>1, <1>3 DEF ProcessOK, ClaimOK, ListingOK, Claiming, Discovering, d
  <2>2. QED
    BY <1>1, <1>2, <1>3, <2>1
    DEF ProcessOK, ClaimOK, Claiming, Spared, Safe, PanesAge, d, e
<1>9. ResolveOK(q)'
  BY <1>1, <1>2 DEF ProcessOK, ResolveOK, Spared, d, e
<1>10. QED BY <1>4, <1>5, <1>6, <1>7, <1>8, <1>9 DEF ProcessOK

-----------------------------------------------------------------------------
(* A step of one process *)

\* What becomes of an agent's session and marker.
Same(a) == ses'[a] = ses[a] /\ mark'[a] = mark[a]
Ended(a) == ses[a] # "none" /\ ses'[a] = "gone" /\ mark'[a] = None
Written(p, a) ==
    /\ Authority(p, a) /\ Alive(a)'
    /\ mark'[a] \in MarkerType /\ mark'[a].owner = p
Held(p, a) ==
    /\ proc[p].at = "hold" /\ proc[p].agent = a
    /\ ses'[a] = "holder" /\ mark'[a] = mark[a]

\* The process p goes to d, and nobody else's variables change.
Step(p, d) ==
    /\ d \in ProcType /\ proc' = [proc EXCEPT ![p] = d] /\ d.at # "down"
    /\ pane'[p] = "live" /\ pane[p] # "gone"
    /\ \A q \in Owners : q # p => pane'[q] = pane[q]
    /\ \A q \in Owners : q # p => reg'[q] = reg[q]
    /\ \A a \in Agents :
         /\ lock[a] \in Owners \ {p} => lock'[a] = lock[a]
         /\ Same(a) \/ Ended(a) \/ Written(p, a) \/ Held(p, a)
         /\ Unknown(a) => \/ d.snap[a] = None /\ reg'[p][a] = None
                          \/ /\ ses[a] # "none" /\ proc[p].at \in Launching
                             /\ proc[p].agent = a
         /\ \/ reg'[p][a] = None
            \/ /\ reg'[p][a].mark.owner = p
               /\ \/ reg[p][a] # None
                  \/ Alive(a)' => mark'[a] # None /\ mark'[a].owner = p
    /\ d.at \in Launching =>
         \/ proc[p].at \in Launching /\ d.agent = proc[p].agent
         \/ \A q \in Owners : proc[q].agent # d.agent

LEMMA HeldIsSafe ==
    ASSUME OwnerInv, NEW p \in Owners, NEW q \in Owners, p # q,
           NEW a \in Agents, Held(p, a)
    PROVE  Safe(q, a) /\ Unknown(a)
<1>1. ProcessOK(p) /\ ProcessOK(q) /\ MarkOK(a) /\ LaunchesDiffer
  BY DEF OwnerInv
<1>2. ses[a] = "none"
  BY <1>1 DEF Held, ProcessOK, LaunchOK, Launching
<1>3. Unknown(a) BY <1>1, <1>2 DEF MarkOK
<1>4. ~(proc[q].at \in Launching /\ proc[q].agent = a)
  BY <1>1 DEF Held, LaunchesDiffer, Launching
<1>5. ~(proc[q].at = "store" /\ proc[q].agent = a)
  BY <1>1, <1>3 DEF ProcessOK, ListingOK, ClaimOK, Claiming, Discovering, Unknown
<1>6. QED BY <1>3, <1>4, <1>5 DEF Safe, Unknown

LEMMA StepSpares ==
    ASSUME OwnerInv, NEW p \in Owners, NEW d, Step(p, d),
           NEW q \in Owners, q # p
    PROVE  Spared(q)
<1>1. proc'[q] = proc[q] BY DEF Step, OwnerInv, TypeOK
<1>2. proc'[p].snap = d.snap BY DEF Step, OwnerInv, TypeOK
<1>3. \A r \in Owners : r # p => proc'[r] = proc[r]
  BY DEF Step, OwnerInv, TypeOK
<1> SUFFICES ASSUME NEW a \in Agents
             PROVE  /\ lock[a] = q => lock'[a] = q
                    /\ \/ /\ Alive(a)' => Alive(a) /\ mark'[a] = mark[a]
                          /\ (ses'[a] = "none") = (ses[a] = "none")
                       \/ Safe(q, a)
                    /\ Unknown(a) => Unknown(a)' \/ Safe(q, a)
  BY <1>1 DEF Spared, Step
<1>4. lock[a] = q => lock'[a] = q BY DEF Step
<1>5. Same(a) \/ Ended(a) \/ Safe(q, a)
  BY HeldIsSafe, AuthorityIsSafe DEF Step, Written
<1>6. \/ /\ Alive(a)' => Alive(a) /\ mark'[a] = mark[a]
         /\ (ses'[a] = "none") = (ses[a] = "none")
      \/ Safe(q, a)
  BY <1>5 DEF Same, Ended, Alive
<1>7. Unknown(a) => Unknown(a)' \/ Safe(q, a)
  <2>1. SUFFICES ASSUME Unknown(a), ~Safe(q, a) PROVE Unknown(a)'
    OBVIOUS
  <2>2. mark'[a] = None BY <1>5, <2>1 DEF Same, Ended, Unknown
  <2>3. CASE d.snap[a] = None /\ reg'[p][a] = None
    <3>1. \A r \in Owners : proc'[r].snap[a] = None /\ reg'[r][a] = None
      BY <1>2, <1>3, <2>1, <2>3 DEF Unknown, Step
    <3>2. QED BY <2>2, <3>1 DEF Unknown
  <2>4. CASE proc[p].at \in Launching /\ proc[p].agent = a
    <3>1. ~(proc[q].at \in Launching /\ proc[q].agent = a)
      BY <2>4 DEF OwnerInv, LaunchesDiffer
    <3>2. ~(proc[q].at = "store" /\ proc[q].agent = a)
      <4>1. ProcessOK(q) BY DEF OwnerInv
      <4>2. QED
        BY <2>1, <4>1
        DEF ProcessOK, ListingOK, ClaimOK, Claiming, Discovering, Unknown
    <3>3. QED BY <2>1, <3>1, <3>2 DEF Safe, Unknown
  <2>5. QED BY <2>1, <2>3, <2>4 DEF Step
<1>8. QED BY <1>4, <1>6, <1>7

LEMMA StepMarks ==
    ASSUME OwnerInv, NEW p \in Owners, NEW d, Step(p, d), NEW a \in Agents
    PROVE  MarkOK(a)'
<1>1. /\ MarkOK(a) /\ ProcessOK(p)
      /\ mark \in [Agents -> MarkerType \cup {None}]
  BY DEF OwnerInv, TypeOK
<1>2. proc'[p] = d /\ \A r \in Owners : r # p => proc'[r] = proc[r]
  BY DEF Step, OwnerInv, TypeOK
<1>3. /\ pane'[p] # "new"
      /\ \A q \in Owners : pane[q] # "new" => pane'[q] # "new"
  BY DEF Step
<1>4. CASE Same(a)
  <2>1. ses[a] = "none" => Unknown(a)'
    BY <1>1, <1>2, <1>4 DEF MarkOK, Same, Step, Unknown
  <2>2. mark[a] # None => mark[a].owner \in Owners BY <1>1, MarkerFacts
  <2>3. QED BY <1>1, <1>3, <1>4, <2>1, <2>2 DEF MarkOK, Same, Alive
<1>5. CASE Ended(a)
  BY <1>5 DEF Ended, MarkOK
<1>6. CASE Written(p, a)
  <2>1. mark'[a] # None BY <1>6, MarkerFacts DEF Written
  <2>2. QED BY <1>3, <1>6, <2>1 DEF Written, MarkOK, Alive
<1>7. CASE Held(p, a)
  <2>1. ses[a] = "none"
    BY <1>1, <1>7 DEF Held, ProcessOK, LaunchOK, Launching
  <2>2. mark[a] = None BY <1>1, <2>1 DEF MarkOK, Unknown
  <2>3. QED BY <1>7, <2>2 DEF Held, MarkOK
<1>8. QED BY <1>4, <1>5, <1>6, <1>7 DEF Step

LEMMA StepKeeps ==
    ASSUME OwnerInv, TypeOK', NEW p \in Owners, NEW d, Step(p, d),
           LaunchOK(p)', ListingOK(p)', ClaimOK(p)', ResolveOK(p)'
    PROVE  OwnerInv'
<1>1. proc'[p] = d /\ \A r \in Owners : r # p => proc'[r] = proc[r]
  BY DEF Step, OwnerInv, TypeOK
<1>2. ProcessOK(p)'
  <2>1. PaneOK(p)' BY <1>1 DEF Step, PaneOK, Running
  <2>2. KeepsOK(p)'
    <3> SUFFICES ASSUME NEW a \in Agents, reg'[p][a] # None
                 PROVE  /\ reg'[p][a].mark.owner = p
                        /\ Alive(a)' => mark'[a] # None /\ mark'[a].owner = p
      BY DEF KeepsOK
    <3>1. reg'[p][a].mark.owner = p BY DEF Step
    <3>2. ASSUME reg[p][a] # None, Alive(a)'
          PROVE  mark'[a] # None /\ mark'[a].owner = p
      <4>1. ProcessOK(p) /\ MarkOK(a) BY DEF OwnerInv
      <4>2. CASE Same(a)
        BY <3>2, <4>1, <4>2 DEF Same, Alive, ProcessOK, KeepsOK
      <4>3. CASE Ended(a) BY <3>2, <4>3 DEF Ended, Alive
      <4>4. CASE Written(p, a) BY <4>4, MarkerFacts DEF Written
      <4>5. CASE Held(p, a)
        BY <3>2, <4>1, <4>5
        DEF Held, ProcessOK, LaunchOK, Launching, MarkOK, Unknown
      <4>6. QED BY <4>2, <4>3, <4>4, <4>5 DEF Step
    <3>3. QED BY <3>1, <3>2 DEF Step
  <2>3. QED BY <2>1, <2>2 DEF ProcessOK
<1>3. \A q \in Owners : ProcessOK(q)'
  <2>1. PanesAge BY DEF Step, PanesAge
  <2>2. QED BY <1>2, <2>1, StepSpares, SparedKeeps
<1>4. \A a \in Agents : MarkOK(a)' BY StepMarks
<1>5. LaunchesDiffer'
  <2>1. LaunchesDiffer BY DEF OwnerInv
  <2>2. d.at \in Launching =>
          \A q \in Owners : q # p /\ proc[q].at \in Launching
                              => proc[q].agent # d.agent
    BY <2>1 DEF Step, LaunchesDiffer
  <2>3. QED BY <1>1, <2>1, <2>2 DEF LaunchesDiffer
<1>6. QED BY <1>3, <1>4, <1>5 DEF OwnerInv

\* A process that goes back to its loop.
LEMMA StepToIdle ==
    ASSUME OwnerInv, TypeOK', NEW p \in Owners, Step(p, Idle)
    PROVE  OwnerInv'
<1>1. proc'[p] = Idle BY DEF Step, OwnerInv, TypeOK
<1>2. LaunchOK(p)' /\ ClaimOK(p)' /\ ResolveOK(p)'
  BY <1>1, IdleFacts DEF LaunchOK, Launching, ClaimOK, Claiming, ResolveOK
<1>3. ListingOK(p)'
  BY <1>1, IdleFacts DEF ListingOK, Discovering
<1>4. QED BY <1>2, <1>3, StepKeeps

-----------------------------------------------------------------------------
(* The launch *)

LEMMA RunsFacts ==
    ASSUME OwnerInv, NEW p \in Owners, proc[p].at # "down"
    PROVE  /\ proc[p] \in ProcType /\ pane[p] = "live" /\ ProcessOK(p)
           /\ reg[p] \in [Agents -> EntryType \cup {None}]
           /\ \A a \in Agents : reg[p][a] # None => reg[p][a].mark.owner = p
BY DEF OwnerInv, TypeOK, ProcessOK, PaneOK, KeepsOK, Running

LEMMA ListedFacts ==
    ASSUME TypeOK, NEW a \in Agents
    PROVE  Listed(a) \in SUBSET files /\ Listed(a) \in SUBSET Ids
BY DEF TypeOK, Listed

LEMMA LaunchOwner ==
    ASSUME OwnerInv, NEW p \in Owners, NEW a \in Agents, Launch(p, a)
    PROVE  OwnerInv'
<1>1. PICK known \in SUBSET Listed(a) :
        proc' = [proc EXCEPT ![p] =
              [Idle EXCEPT
                 !.at = "hold", !.agent = a,
                 !.entry = [mark |-> [owner |-> p, phase |-> "launching",
                                      id |-> None],
                            key |-> None, guess |-> a \notin Codex,
                            pre |-> known]]]
  BY DEF Launch
<1> DEFINE m == [owner |-> p, phase |-> "launching", id |-> None]
           e == [mark |-> m, key |-> None, guess |-> a \notin Codex, pre |-> known]
           d == [Idle EXCEPT !.at = "hold", !.agent = a, !.entry = e]
<1>2. m \in MarkerType BY DEF MarkerType
<1>3. e \in EntryType
  <2>1. known \in SUBSET Ids BY ListedFacts DEF OwnerInv
  <2>2. QED BY <1>2, <2>1 DEF EntryType
<1>4. e.mark.owner = p /\ e.mark.phase = "launching" /\ e.key = None
  OBVIOUS
<1>5. proc' = [proc EXCEPT ![p] = d] BY <1>1
<1> HIDE DEF e
<1>6. /\ d \in ProcType /\ d.at = "hold" /\ d.agent = a /\ d.entry = e
      /\ d.snap = [b \in Agents |-> None]
  BY <1>3, IdleFacts DEF ProcType, Labels
<1> HIDE DEF d, m
<1>7. pane[p] = "live" /\ \A b \in Agents : reg[p][b] # None => reg[p][b].mark.owner = p
  BY RunsFacts DEF Launch
<1>8. TypeOK'
  <2>1. proc' \in [Owners -> ProcType] BY <1>5, <1>6, Moves DEF OwnerInv
  <2>2. Listed(a) \in SUBSET Ids BY ListedFacts DEF OwnerInv
  <2>3. QED BY <2>1, <2>2 DEF OwnerInv, TypeOK, Launch
<1>9. Step(p, d)
  BY <1>5, <1>6, <1>7 DEF Step, Launch, Same, Unknown
<1>10. proc'[p] = d BY <1>5, <1>6, Moves DEF OwnerInv
<1>11. LaunchOK(p)'
  <2>1. ses'[a] = "none" BY DEF Launch
  <2>2. QED BY <1>3, <1>4, <1>6, <1>10, <2>1 DEF LaunchOK
<1>12. ListingOK(p)' /\ ClaimOK(p)' /\ ResolveOK(p)'
  BY <1>6, <1>10 DEF ListingOK, Discovering, ClaimOK, Claiming, ResolveOK
<1>13. QED BY <1>8, <1>9, <1>11, <1>12, StepKeeps

LEMMA HoldOwner ==
    ASSUME OwnerInv, NEW p \in Owners, Hold(p)
    PROVE  OwnerInv'
<1> DEFINE a == proc[p].agent
           d == [proc[p] EXCEPT !.at = "mark"]
<1>1. /\ proc[p] \in ProcType /\ pane[p] = "live" /\ proc[p].at = "hold"
      /\ ProcessOK(p)
      /\ \A b \in Agents : reg[p][b] # None => reg[p][b].mark.owner = p
  BY RunsFacts DEF Hold
<1>2. /\ a \in Agents /\ proc[p].entry \in EntryType /\ ses[a] = "none"
      /\ proc[p].entry.mark.owner = p /\ proc[p].entry.mark.phase = "launching"
      /\ proc[p].entry.key = None
  BY <1>1 DEF ProcessOK, LaunchOK, Launching
<1>3. /\ \A b \in Agents : proc[p].snap[b] = None
      /\ Unknown(a)
  BY <1>1, <1>2 DEF ProcessOK, ListingOK, Discovering, OwnerInv, MarkOK
<1>4. faults' \in 0..MaxFaults BY FaultFacts DEF OwnerInv, Hold
<1>5. CASE /\ ses' = [ses EXCEPT ![a] = "holder"]
           /\ proc' = [proc EXCEPT ![p].at = "mark"]
  <2>1. /\ d \in ProcType /\ d.at = "mark" /\ d.agent = a /\ d.snap = proc[p].snap
        /\ d.entry = proc[p].entry
    BY <1>1 DEF ProcType, Labels
  <2>2. proc' = [proc EXCEPT ![p] = d] BY <1>5
  <2> HIDE DEF d
  <2>3. /\ proc' \in [Owners -> ProcType] /\ proc'[p] = d
        /\ \A q \in Owners : q # p => proc'[q] = proc[q]
    BY <2>1, <2>2, Moves DEF OwnerInv
  <2>4. /\ ses' \in [Agents -> {"none", "holder", "agent", "gone"}]
        /\ ses'[a] = "holder" /\ \A b \in Agents : b # a => ses'[b] = ses[b]
    BY <1>2, <1>5 DEF OwnerInv, TypeOK
  <2>5. TypeOK' BY <1>4, <2>3, <2>4 DEF OwnerInv, TypeOK, Hold, world
  <2>6. Step(p, d)
    <3>1. \A b \in Agents : Same(b) \/ Held(p, b)
      BY <1>1, <2>4 DEF Same, Held, Hold
    <3>2. \A b \in Agents : Unknown(b) => d.snap[b] = None /\ reg'[p][b] = None
      BY <1>3, <2>1 DEF Unknown, Hold
    <3>3. QED
      BY <1>1, <2>1, <2>2, <3>1, <3>2 DEF Step, Hold, world, Launching
  <2>7. Unknown(a)'
    BY <1>3, <2>1, <2>3 DEF Unknown, Hold
  <2>8. LaunchOK(p)'
    BY <1>2, <2>1, <2>3, <2>4, <2>7 DEF LaunchOK
  <2>9. ListingOK(p)' /\ ClaimOK(p)' /\ ResolveOK(p)'
    BY <1>3, <2>1, <2>3 DEF ListingOK, Discovering, ClaimOK, Claiming, ResolveOK
  <2>10. QED BY <2>5, <2>6, <2>8, <2>9, StepKeeps
<1>6. CASE proc' = [proc EXCEPT ![p] = Idle] /\ UNCHANGED ses
  <2>1. proc' \in [Owners -> ProcType]
    BY <1>6, IdleFacts, Moves DEF OwnerInv
  <2>2. TypeOK' BY <1>4, <1>6, <2>1 DEF OwnerInv, TypeOK, Hold, world
  <2>3. Step(p, Idle)
    BY <1>1, <1>6, IdleFacts DEF Step, Hold, world, Same, Unknown, Launching
  <2>4. QED BY <2>2, <2>3, StepToIdle
<1>7. QED BY <1>5, <1>6 DEF Hold

LEMMA MarkHolderOwner ==
    ASSUME OwnerInv, NEW p \in Owners, MarkHolder(p)
    PROVE  OwnerInv'
<1> DEFINE a == proc[p].agent
           m == proc[p].entry.mark
           d == [proc[p] EXCEPT !.at = "start"]
<1>1. /\ proc[p] \in ProcType /\ pane[p] = "live" /\ proc[p].at = "mark"
      /\ ProcessOK(p)
      /\ \A b \in Agents : reg[p][b] # None => reg[p][b].mark.owner = p
  BY RunsFacts DEF MarkHolder
<1>2. /\ a \in Agents /\ proc[p].entry \in EntryType /\ ses[a] # "none"
      /\ m \in MarkerType /\ m.owner = p /\ m.phase = "launching"
      /\ proc[p].entry.key = None /\ Unknown(a)
  BY <1>1, EntryFacts DEF ProcessOK, LaunchOK, Launching
<1>3. \A b \in Agents : proc[p].snap[b] = None
  BY <1>1 DEF ProcessOK, ListingOK, Discovering
<1>4. CASE /\ Alive(a) /\ Write(a, m, TRUE)
           /\ proc' = [proc EXCEPT ![p].at = "start"]
           /\ UNCHANGED <<world, ses>>
  <2>1. /\ d \in ProcType /\ d.at = "start" /\ d.agent = a
        /\ d.snap = proc[p].snap /\ d.entry = proc[p].entry
    BY <1>1 DEF ProcType, Labels
  <2>2. proc' = [proc EXCEPT ![p] = d] BY <1>4
  <2> HIDE DEF d
  <2>3. proc' \in [Owners -> ProcType] /\ proc'[p] = d
    BY <2>1, <2>2, Moves DEF OwnerInv
  <2>4. /\ mark' \in [Agents -> MarkerType \cup {None}] /\ mark'[a] = m
        /\ \A b \in Agents : b # a => mark'[b] = mark[b]
        /\ faults' \in 0..MaxFaults
    BY <1>2, <1>4, WriteFacts DEF OwnerInv
  <2>5. TypeOK'
    BY <1>4, <2>3, <2>4 DEF OwnerInv, TypeOK, MarkHolder, world
  <2>6. Step(p, d)
    <3>1. Written(p, a)
      BY <1>1, <1>2, <1>4, <2>4 DEF Written, Authority, Running, Alive
    <3>2. \A b \in Agents : b # a => Same(b)
      BY <1>4, <2>4 DEF Same
    <3>3. QED
      BY <1>1, <1>2, <1>3, <1>4, <2>1, <2>2, <3>1, <3>2
      DEF Step, MarkHolder, world, Launching, Unknown
  <2>7. LaunchOK(p)'
    BY <1>2, <1>4, <2>1, <2>3, <2>4 DEF LaunchOK
  <2>8. ListingOK(p)' /\ ClaimOK(p)' /\ ResolveOK(p)'
    BY <1>3, <2>1, <2>3 DEF ListingOK, Discovering, ClaimOK, Claiming, ResolveOK
  <2>9. QED BY <2>5, <2>6, <2>7, <2>8, StepKeeps
<1>5. CASE /\ Alive(a) /\ Fails /\ EndSession(a)
           /\ proc' = [proc EXCEPT ![p] = Idle]
  <2>1. proc' \in [Owners -> ProcType]
    BY <1>5, IdleFacts, Moves DEF OwnerInv
  <2>2. faults' \in 0..MaxFaults BY <1>5, FaultFacts DEF OwnerInv
  <2>3. TypeOK'
    BY <1>2, <1>5, <2>1, <2>2, EndSessionFacts
    DEF OwnerInv, TypeOK, MarkHolder
  <2>4. \A b \in Agents : Same(b) \/ Ended(b)
    BY <1>2, <1>5, EndSessionFacts DEF OwnerInv, Same, Ended, Alive
  <2>5. Step(p, Idle)
    BY <1>1, <1>2, <1>5, <2>4, IdleFacts, EndSessionFacts
    DEF Step, MarkHolder, Unknown, Launching, OwnerInv
  <2>6. QED BY <2>3, <2>5, StepToIdle
<1>6. CASE /\ Alive(a) /\ Write(a, m, FALSE) /\ UNCHANGED <<world, ses>>
           /\ proc' = [proc EXCEPT ![p] = Idle]
  <2>1. proc' \in [Owners -> ProcType]
    BY <1>6, IdleFacts, Moves DEF OwnerInv
  <2>2. /\ mark' \in [Agents -> MarkerType \cup {None}]
        /\ mark'[a] = m \/ mark'[a] = mark[a]
        /\ \A b \in Agents : b # a => mark'[b] = mark[b]
        /\ faults' \in 0..MaxFaults
    BY <1>2, <1>6, WriteFacts DEF OwnerInv
  <2>3. TypeOK'
    BY <1>6, <2>1, <2>2 DEF OwnerInv, TypeOK, MarkHolder, world
  <2>4. \A b \in Agents : Same(b) \/ Written(p, b)
    BY <1>1, <1>2, <1>6, <2>2 DEF Same, Written, Authority, Running, Alive
  <2>5. Step(p, Idle)
    BY <1>1, <1>2, <1>6, <2>4, IdleFacts
    DEF Step, MarkHolder, Unknown, Launching, world
  <2>6. QED BY <2>3, <2>5, StepToIdle
<1>7. CASE /\ ~Alive(a) /\ Ok /\ UNCHANGED <<world, ses, mark>>
           /\ proc' = [proc EXCEPT ![p] = Idle]
  <2>1. proc' \in [Owners -> ProcType]
    BY <1>7, IdleFacts, Moves DEF OwnerInv
  <2>2. TypeOK'
    BY <1>7, <2>1 DEF OwnerInv, TypeOK, MarkHolder, world, Ok
  <2>3. Step(p, Idle)
    BY <1>1, <1>7, IdleFacts
    DEF Step, MarkHolder, Unknown, Launching, world, Same
  <2>4. QED BY <2>2, <2>3, StepToIdle
<1>8. QED BY <1>4, <1>5, <1>6, <1>7 DEF MarkHolder

LEMMA StartAgentOwner ==
    ASSUME OwnerInv, NEW p \in Owners, StartAgent(p)
    PROVE  OwnerInv'
<1> DEFINE a == proc[p].agent
           d == [proc[p] EXCEPT !.at = "register"]
<1>1. /\ proc[p] \in ProcType /\ pane[p] = "live" /\ proc[p].at = "start"
      /\ ProcessOK(p)
      /\ \A b \in Agents : reg[p][b] # None => reg[p][b].mark.owner = p
  BY RunsFacts DEF StartAgent
<1>2. /\ a \in Agents /\ proc[p].entry \in EntryType /\ ses[a] # "none"
      /\ proc[p].entry.mark \in MarkerType
      /\ proc[p].entry.mark.owner = p
      /\ proc[p].entry.mark.phase = "launching" /\ proc[p].entry.key = None
      /\ Alive(a) => mark[a] = proc[p].entry.mark
  BY <1>1, EntryFacts DEF ProcessOK, LaunchOK, Launching
<1>3. \A b \in Agents : proc[p].snap[b] = None
  BY <1>1 DEF ProcessOK, ListingOK, Discovering
<1>4. faults' \in 0..MaxFaults
  BY FaultFacts DEF OwnerInv, StartAgent
<1>5. CASE /\ Alive(a)
           /\ ses' = [ses EXCEPT ![a] = "agent"]
           /\ proc' = [proc EXCEPT ![p].at = "register"]
           /\ UNCHANGED <<world, mark>>
  <2>1. /\ d \in ProcType /\ d.at = "register" /\ d.agent = a
        /\ d.snap = proc[p].snap /\ d.entry = proc[p].entry
    BY <1>1 DEF ProcType, Labels
  <2>2. proc' = [proc EXCEPT ![p] = d] BY <1>5
  <2> HIDE DEF d
  <2>3. proc' \in [Owners -> ProcType] /\ proc'[p] = d
    BY <2>1, <2>2, Moves DEF OwnerInv
  <2>4. /\ ses' \in [Agents -> {"none", "holder", "agent", "gone"}]
        /\ ses'[a] = "agent" /\ \A b \in Agents : b # a => ses'[b] = ses[b]
    BY <1>2, <1>5 DEF OwnerInv, TypeOK
  <2>5. TypeOK'
    BY <1>4, <1>5, <2>3, <2>4 DEF OwnerInv, TypeOK, StartAgent, world
  <2>6. Step(p, d)
    <3>1. Written(p, a)
      BY <1>1, <1>2, <1>5, <2>4 DEF Written, Authority, Running, Alive
    <3>2. \A b \in Agents : b # a => Same(b)
      BY <1>5, <2>4 DEF Same
    <3>3. QED
      BY <1>1, <1>2, <1>3, <1>5, <2>1, <2>2, <3>1, <3>2
      DEF Step, StartAgent, world, Launching, Unknown
  <2>7. LaunchOK(p)'
    BY <1>2, <1>5, <2>1, <2>3, <2>4 DEF LaunchOK
  <2>8. ListingOK(p)' /\ ClaimOK(p)' /\ ResolveOK(p)'
    BY <1>3, <2>1, <2>3 DEF ListingOK, Discovering, ClaimOK, Claiming, ResolveOK
  <2>9. QED BY <2>5, <2>6, <2>7, <2>8, StepKeeps
<1>6. CASE /\ Alive(a) /\ EndSession(a)
           /\ proc' = [proc EXCEPT ![p] = Idle]
  <2>1. proc' \in [Owners -> ProcType]
    BY <1>6, IdleFacts, Moves DEF OwnerInv
  <2>2. TypeOK'
    BY <1>2, <1>4, <1>6, <2>1, EndSessionFacts
    DEF OwnerInv, TypeOK, StartAgent
  <2>3. \A b \in Agents : Same(b) \/ Ended(b)
    BY <1>2, <1>6, EndSessionFacts DEF OwnerInv, Same, Ended, Alive
  <2>4. Step(p, Idle)
    BY <1>1, <1>2, <1>6, <2>3, IdleFacts, EndSessionFacts
    DEF Step, StartAgent, Unknown, Launching, OwnerInv
  <2>5. QED BY <2>2, <2>4, StepToIdle
<1>7. CASE /\ UNCHANGED <<world, ses, mark>>
           /\ proc' = [proc EXCEPT ![p] = Idle]
  <2>1. proc' \in [Owners -> ProcType]
    BY <1>7, IdleFacts, Moves DEF OwnerInv
  <2>2. TypeOK'
    BY <1>4, <1>7, <2>1 DEF OwnerInv, TypeOK, StartAgent, world
  <2>3. Step(p, Idle)
    BY <1>1, <1>7, IdleFacts
    DEF Step, StartAgent, Unknown, Launching, world, Same
  <2>4. QED BY <2>2, <2>3, StepToIdle
<1>8. QED BY <1>5, <1>6, <1>7 DEF StartAgent

LEMMA RegisterOwner ==
    ASSUME OwnerInv, NEW p \in Owners, Register(p)
    PROVE  OwnerInv'
<1>0. PICK a \in Agents : a = proc[p].agent
  BY RunsFacts DEF Register, ProcessOK, LaunchOK, Launching
<1> DEFINE e == proc[p].entry
           m == [e.mark EXCEPT !.phase = "unresolved"]
           f == [e EXCEPT !.mark = m]
<1>1. /\ proc[p] \in ProcType /\ pane[p] = "live" /\ proc[p].at = "register"
      /\ ProcessOK(p)
      /\ \A b \in Agents : reg[p][b] # None => reg[p][b].mark.owner = p
  BY RunsFacts DEF Register
<1>2. /\ a \in Agents /\ e \in EntryType /\ ses[a] # "none"
      /\ e.mark \in MarkerType /\ e.mark.owner = p
      /\ e.mark.phase = "launching" /\ e.key = None
      /\ Alive(a) => mark[a] = e.mark
  BY <1>0, <1>1, EntryFacts DEF ProcessOK, LaunchOK, Launching
<1>3. m \in MarkerType /\ m.owner = p
  BY <1>2 DEF MarkerType
<1>4. f \in EntryType /\ f.mark.owner = p
  BY <1>2, <1>3 DEF EntryType
<1>5. proc' = [proc EXCEPT ![p] = Idle] /\ UNCHANGED <<world, ses>>
  BY DEF Register
<1>6. /\ mark' \in [Agents -> MarkerType \cup {None}]
      /\ faults' \in 0..MaxFaults
      /\ \A b \in Agents : Same(b) \/ Written(p, b)
      /\ Alive(a)' => mark'[a] # None /\ mark'[a].owner = p
  <2>1. CASE Alive(a) /\ \E ok \in BOOLEAN : Write(a, m, ok)
    <3>1. PICK ok \in BOOLEAN : Write(a, m, ok) BY <2>1
    <3>2. /\ mark' \in [Agents -> MarkerType \cup {None}]
          /\ mark'[a] = m \/ mark'[a] = mark[a]
          /\ \A b \in Agents : b # a => mark'[b] = mark[b]
          /\ faults' \in 0..MaxFaults
      BY <1>2, <1>3, <3>1, WriteFacts DEF OwnerInv
    <3>3. mark'[a] \in MarkerType /\ mark'[a].owner = p
      BY <1>2, <1>3, <2>1, <3>2
    <3>4. \A b \in Agents : Same(b) \/ Written(p, b)
      BY <1>0, <1>1, <1>2, <1>5, <2>1, <3>2, <3>3
      DEF Same, Written, Authority, Running, Alive
    <3>5. QED BY <3>2, <3>3, <3>4, MarkerFacts
  <2>2. CASE ~Alive(a) /\ Ok /\ UNCHANGED mark
    <3>1. ses' = ses /\ mark' = mark BY <1>5, <2>2
    <3>2. mark' \in [Agents -> MarkerType \cup {None}]
      BY <3>1 DEF OwnerInv, TypeOK
    <3>3. QED BY <2>2, <3>1, <3>2, FaultFacts DEF OwnerInv, Same, Alive
  <2>3. QED BY <1>0, <2>1, <2>2 DEF Register
<1>7. \E g \in EntryType :
        g.mark.owner = p /\ reg' = [reg EXCEPT ![p][a] = g]
  <2>1. reg' = [reg EXCEPT ![p][a] = f] \/ reg' = [reg EXCEPT ![p][a] = e]
    BY <1>0 DEF Register
  <2>2. QED BY <1>2, <1>4, <2>1
<1> HIDE DEF m, f
<1>8. PICK g \in EntryType :
        g.mark.owner = p /\ reg' = [reg EXCEPT ![p][a] = g]
  BY <1>7
<1>9. /\ reg' \in [Owners -> [Agents -> EntryType \cup {None}]]
      /\ reg'[p][a] = g
      /\ \A q \in Owners, b \in Agents :
           q # p \/ b # a => reg'[q][b] = reg[q][b]
  <2>1. Put(p, a, g) BY <1>8 DEF Put
  <2>2. Changed(p, a, g) BY TypesHold, <2>1, RegFacts
  <2>3. QED BY <2>2 DEF Changed
<1>10. \A q \in Owners : q # p => reg'[q] = reg[q]
  BY <1>8 DEF OwnerInv, TypeOK
<1>11. proc' \in [Owners -> ProcType]
  BY <1>5, IdleFacts, Moves DEF OwnerInv
<1>12. TypeOK'
  BY <1>5, <1>6, <1>9, <1>11 DEF OwnerInv, TypeOK, Register, world
<1>13. Step(p, Idle)
  <2>1. \A b \in Agents : Unknown(b) =>
          \/ Idle.snap[b] = None /\ reg'[p][b] = None
          \/ /\ ses[b] # "none" /\ proc[p].at \in Launching /\ proc[p].agent = b
    BY <1>0, <1>1, <1>2, <1>9, IdleFacts DEF Unknown, Launching
  <2>2. \A b \in Agents :
          \/ reg'[p][b] = None
          \/ /\ reg'[p][b].mark.owner = p
             /\ \/ reg[p][b] # None
                \/ Alive(b)' => mark'[b] # None /\ mark'[b].owner = p
    <3>1. reg'[p][a].mark.owner = p BY <1>8, <1>9
    <3>2. \A b \in Agents : b # a => reg'[p][b] = reg[p][b] BY <1>9
    <3>3. QED BY <1>1, <1>6, <3>1, <3>2
  <2>3. QED
    BY <1>1, <1>5, <1>6, <1>10, <2>1, <2>2, IdleFacts
    DEF Step, Register, world, Launching
<1>14. QED BY <1>12, <1>13, StepToIdle

-----------------------------------------------------------------------------
(* The discovery *)

LEMMA ListSessionsOwner ==
    ASSUME OwnerInv, NEW p \in Owners, NEW s \in Ids \cup {None},
           ListSessions(p, s), pane[p] # "gone",
           pane' = [pane EXCEPT ![p] = "live"],
           UNCHANGED <<ses, mark, lock, writes, files, resumed, saved, reg, own, old>>
    PROVE  OwnerInv'
<1> DEFINE d == [Idle EXCEPT !.at = "examine", !.goal = s]
           t == {a \in Agents : mark[a] # None /\ reg[p][a] = None}
           f == [d EXCEPT !.snap = mark, !.sure = TRUE, !.todo = t]
<1>1. /\ d \in ProcType /\ d.at = "examine" /\ d.todo = {}
      /\ d.loaded = FALSE /\ d.snap = [a \in Agents |-> None]
  BY IdleFacts DEF ProcType, Labels
<1>2. mark \in [Agents -> MarkerType \cup {None}] /\ t \in SUBSET Agents
  BY DEF OwnerInv, TypeOK
<1>3. proc' = [proc EXCEPT ![p] = d] \/ proc' = [proc EXCEPT ![p] = f]
  BY DEF ListSessions
<1> HIDE DEF d
<1>4. /\ f \in ProcType /\ f.at = "examine" /\ f.todo = t
      /\ f.loaded = FALSE /\ f.snap = mark
  <2> HIDE DEF t
  <2>1. QED BY <1>1, <1>2 DEF ProcType
<1> HIDE DEF f
<1>5. PICK g \in ProcType :
        /\ proc' = [proc EXCEPT ![p] = g]
        /\ g.at = "examine" /\ g.loaded = FALSE
        /\ \/ g.todo = {} /\ g.snap = [a \in Agents |-> None]
           \/ g.todo = t /\ g.snap = mark
  BY <1>1, <1>3, <1>4
<1>6. proc' \in [Owners -> ProcType] /\ proc'[p] = g
  <2>1. proc' = [proc EXCEPT ![p] = g] BY <1>5
  <2>2. QED BY <2>1, Moves DEF OwnerInv
<1>7. faults' \in 0..MaxFaults BY FaultFacts DEF OwnerInv, ListSessions
<1>8. TypeOK' BY <1>6, <1>7 DEF OwnerInv, TypeOK
<1>9. ProcessOK(p) /\ \A a \in Agents : MarkOK(a) BY DEF OwnerInv
<1>10. pane'[p] = "live" /\ \A q \in Owners : q # p => pane'[q] = pane[q]
  BY DEF OwnerInv, TypeOK
<1>11. Step(p, g)
  <2>1. \A a \in Agents : Unknown(a) => g.snap[a] = None /\ reg'[p][a] = None
    BY <1>5 DEF Unknown
  <2>2. \A a \in Agents : reg'[p][a] # None =>
          reg'[p][a].mark.owner = p /\ reg[p][a] # None
    BY <1>9 DEF ProcessOK, KeepsOK
  <2>3. QED BY <1>5, <1>10, <2>1, <2>2 DEF Step, Same, Launching
<1>12. ListingOK(p)'
  <2>1. \A a \in Agents : g.snap[a] # None =>
          /\ g.snap[a] = mark[a] /\ mark[a].owner \in Owners
          /\ pane[mark[a].owner] # "new"
    BY <1>2, <1>5, <1>9, MarkerFacts DEF MarkOK
  <2>2. \A a \in g.todo : g.snap[a] # None BY <1>5
  <2>3. QED
    BY <1>5, <1>6, <1>10, <2>1, <2>2 DEF ListingOK, Discovering
<1>13. LaunchOK(p)' /\ ClaimOK(p)' /\ ResolveOK(p)'
  BY <1>5, <1>6 DEF LaunchOK, Launching, ClaimOK, Claiming, ResolveOK
<1>14. QED BY <1>8, <1>11, <1>12, <1>13, StepKeeps

LEMMA ResumeOwner ==
    ASSUME OwnerInv, NEW p \in Owners, NEW s \in Ids, Resume(p, s)
    PROVE  OwnerInv'
<1>1. pane[p] = "live" /\ pane \in [Owners -> {"new", "live", "gone"}]
  BY RunsFacts DEF Resume, OwnerInv, TypeOK
<1>2. pane' = [pane EXCEPT ![p] = "live"]
  BY <1>1 DEF Resume, world
<1>3. QED BY <1>1, <1>2, ListSessionsOwner DEF Resume, world

LEMMA StartOwner ==
    ASSUME OwnerInv, NEW p \in Owners, Start(p)
    PROVE  OwnerInv'
BY ListSessionsOwner DEF Start

\* An examined session is passed over or done.
Passed(p, a, sure) ==
    [proc[p] EXCEPT !.at = "examine", !.agent = None, !.todo = @ \ {a},
                    !.sure = sure]

LEMMA PassedFacts ==
    ASSUME TypeOK, NEW p \in Owners, NEW a \in Agents, NEW sure \in BOOLEAN
    PROVE  LET d == Passed(p, a, sure) IN
           /\ d \in ProcType /\ d.at = "examine" /\ d.agent = None
           /\ d.todo = proc[p].todo \ {a} /\ d.sure = sure
           /\ d.snap = proc[p].snap /\ d.loaded = proc[p].loaded
           /\ d.live = proc[p].live /\ d.goal = proc[p].goal
<1> DEFINE c == proc[p]
           t == c.todo \ {a}
           d == [c EXCEPT !.at = "examine", !.agent = None, !.todo = t,
                          !.sure = sure]
<1>1. c \in ProcType /\ t \in SUBSET Agents BY ProcFacts DEF TypeOK
<1>2. Passed(p, a, sure) = d BY DEF Passed
<1> HIDE DEF c, t
<1>3. /\ d \in ProcType /\ d.at = "examine" /\ d.agent = None
      /\ d.todo = t /\ d.sure = sure /\ d.snap = c.snap /\ d.loaded = c.loaded
      /\ d.live = c.live /\ d.goal = c.goal
  BY <1>1 DEF ProcType, Labels
<1>4. QED BY <1>2, <1>3 DEF c, t

LEMMA OrphanFacts ==
    ASSUME TypeOK, NEW p \in Owners, NEW a \in Agents,
           NextOrphan(p, a) \/ SkipOrphan(p, a)
    PROVE  /\ NextOrphan(p, a) =>
                proc' = [proc EXCEPT ![p] = Passed(p, a, proc[p].sure)]
           /\ SkipOrphan(p, a) =>
                proc' = [proc EXCEPT ![p] = Passed(p, a, FALSE)]
           /\ proc[p].sure \in BOOLEAN
<1>1. proc \in [Owners -> ProcType] /\ proc[p] \in ProcType BY DEF TypeOK
<1>2. NextOrphan(p, a) =>
        proc' = [proc EXCEPT ![p] = Passed(p, a, proc[p].sure)]
  BY <1>1 DEF NextOrphan, Passed, ProcType
<1>3. SkipOrphan(p, a) =>
        proc' = [proc EXCEPT ![p] = Passed(p, a, FALSE)]
  BY <1>1 DEF SkipOrphan, Passed, ProcType
<1>4. QED BY <1>1, <1>2, <1>3, ProcFacts

LEMMA PassedOwner ==
    ASSUME OwnerInv, NEW p \in Owners, NEW a \in Agents, NEW sure \in BOOLEAN,
           proc'[p] = Passed(p, a, sure), proc[p].at \in Discovering,
           pane' = pane, ses' = ses,
           \A b \in Agents : \/ mark'[b] = mark[b]
                             \/ proc[p].snap[b] # None => proc[p].snap[b].owner # p
    PROVE  LaunchOK(p)' /\ ListingOK(p)' /\ ClaimOK(p)' /\ ResolveOK(p)'
<1>1. ListingOK(p) BY DEF OwnerInv, ProcessOK
<1>2. LaunchOK(p)' /\ ClaimOK(p)' /\ ResolveOK(p)'
  BY PassedFacts
  DEF OwnerInv, LaunchOK, Launching, ClaimOK, Claiming, ResolveOK
<1>3. ListingOK(p)'
  BY <1>1, PassedFacts DEF OwnerInv, ListingOK, Discovering, Alive
<1>4. QED BY <1>2, <1>3

LEMMA AdoptFacts ==
    ASSUME TypeOK, NEW p \in Owners, NEW a \in Agents, NEW m \in MarkerType,
           Adopt(p, a, m)
    PROVE  \E e \in EntryType :
             /\ e.mark = m
             /\ \/ e.key = None /\ (e.pre = {} \/ e.pre = saved[a].pre)
                \/ e.key = m.id /\ e.key \in files /\ e.pre = {}
             /\ \/ reg' = reg /\ e.key \in Bound(p) \ {None}
                \/ reg' = [reg EXCEPT ![p][a] = e]
<1>1. PICK e \in AdoptedEntries(p, a, m) :
        reg' = IF e.key # None /\ e.key \in Bound(p) THEN reg
               ELSE [reg EXCEPT ![p][a] = e]
  BY DEF Adopt
<1>2. /\ e \in EntryType /\ e.mark = m
      /\ \/ e.key = None /\ (e.pre = {} \/ e.pre = saved[a].pre)
         \/ e.key = m.id /\ e.key \in files /\ e.pre = {}
  <2>1. Lost \in ContextType /\ saved[a] \in ContextType /\ Lost.pre = {}
    BY DEF TypeOK, Lost, ContextType
  <2>2. CASE \E c \in PlaceholderContext(p, a) :
               e = [mark |-> m, key |-> None, pre |-> c.pre, guess |-> c.guess]
    <3>1. PICK c \in ContextType :
            /\ c = Lost \/ c = saved[a]
            /\ e = [mark |-> m, key |-> None, pre |-> c.pre, guess |-> c.guess]
      BY <2>1, <2>2 DEF PlaceholderContext
    <3>2. c.pre \in SUBSET Ids /\ c.guess \in BOOLEAN BY <3>1 DEF ContextType
    <3>3. QED BY <2>1, <3>1, <3>2 DEF EntryType
  <2>3. CASE \E s \in {m.id} \cap files :
               e = [mark |-> m, key |-> s, pre |-> {}, guess |-> FALSE]
    <3>1. PICK s \in files :
            /\ s = m.id
            /\ e = [mark |-> m, key |-> s, pre |-> {}, guess |-> FALSE]
      BY <2>3
    <3>2. s \in Ids BY <3>1 DEF TypeOK
    <3>3. QED BY <3>1, <3>2 DEF EntryType
  <2>4. QED BY <2>2, <2>3 DEF AdoptedEntries
<1>3. \/ reg' = reg /\ e.key \in Bound(p) \ {None}
      \/ reg' = [reg EXCEPT ![p][a] = e]
  BY <1>1
<1>4. QED BY <1>2, <1>3

\* The registry after an adoption.
LEMMA AdoptedReg ==
    ASSUME TypeOK, NEW p \in Owners, NEW a \in Agents, NEW m \in MarkerType,
           Adopt(p, a, m)
    PROVE  /\ reg' \in [Owners -> [Agents -> EntryType \cup {None}]]
           /\ \A q \in Owners : q # p => reg'[q] = reg[q]
           /\ \A b \in Agents : b # a => reg'[p][b] = reg[p][b]
           /\ \/ reg'[p][a] = reg[p][a]
              \/ reg'[p][a] \in EntryType /\ reg'[p][a].mark = m
<1>1. PICK e \in EntryType :
        /\ e.mark = m
        /\ reg' = reg \/ reg' = [reg EXCEPT ![p][a] = e]
  BY AdoptFacts
<1>2. CASE reg' = reg BY <1>2 DEF TypeOK
<1>3. CASE reg' = [reg EXCEPT ![p][a] = e]
  <2>1. e \in EntryType \/ e = None OBVIOUS
  <2>2. /\ reg' \in [Owners -> [Agents -> EntryType \cup {None}]]
        /\ reg'[p][a] = e
        /\ \A q \in Owners, b \in Agents :
             q # p \/ b # a => reg'[q][b] = reg[q][b]
    <3>1. Put(p, a, e) BY <1>3 DEF Put
    <3>2. Changed(p, a, e) BY <2>1, <3>1, RegFacts
    <3>3. QED BY <3>2 DEF Changed
  <2>3. \A q \in Owners : q # p => reg'[q] = reg[q]
    BY <1>3 DEF TypeOK
  <2>4. QED BY <1>1, <2>2, <2>3
<1>4. QED BY <1>1, <1>2, <1>3

\* The panes that the process counts as live leave only panes out that are gone.
LEMMA LiveFacts ==
    ASSUME OwnerInv, NEW p \in Owners
    PROVE  /\ Live(p) \in SUBSET Owners
           /\ \A b \in Agents :
                LET m == proc[p].snap[b] IN
                m # None /\ m.owner \notin Live(p) => pane[m.owner] = "gone"
<1>1. /\ proc[p] \in ProcType /\ ListingOK(p)
      /\ pane \in [Owners -> {"new", "live", "gone"}]
  BY DEF OwnerInv, TypeOK, ProcessOK
<1>2. Live(p) \in SUBSET Owners BY <1>1, ProcFacts DEF Live
<1>3. \A b \in Agents : proc[p].snap[b] # None =>
        proc[p].snap[b].owner \in Owners
  BY <1>1, ProcFacts, MarkerFacts
<1>4. QED BY <1>1, <1>2, <1>3 DEF ListingOK, Live

\* Where the examination of another process's session leads.
ForeignStep(p, a, d) ==
    /\ proc' = [proc EXCEPT ![p] = d]
    /\ d.snap = proc[p].snap /\ d.goal = proc[p].goal /\ d.loaded = TRUE
    /\ \A b \in Agents : d.snap[b] # None /\ d.snap[b].owner \notin d.live
                           => pane[d.snap[b].owner] = "gone"
    /\ d.sure => proc[p].sure /\ d.live = Live(p)
    /\ \/ /\ d.at = "compare" /\ d.agent = a /\ d.todo = proc[p].todo
          /\ pane[d.snap[a].owner] = "gone"
          /\ lock' = [lock EXCEPT ![a] = p] /\ lock[a] = None
       \/ /\ d.at = "examine" /\ d.todo = proc[p].todo \ {a}
          /\ d.sure => d.snap[a].owner \in d.live
          /\ lock' = lock

LEMMA ForeignFacts ==
    ASSUME OwnerInv, NEW p \in Owners, NEW a \in Agents,
           proc[p].at = "examine", a \in proc[p].todo, ExamineForeign(p, a)
    PROVE  \E d \in ProcType : ForeignStep(p, a, d)
<1> DEFINE c == proc[p]
           v == Live(p)
           t == c.todo \ {a}
           known == [c EXCEPT !.loaded = TRUE, !.live = v]
           d1 == [known EXCEPT !.at = "compare", !.agent = a]
           d2 == [known EXCEPT !.todo = t, !.sure = FALSE]
           d3 == [known EXCEPT !.todo = t]
           d4 == [c EXCEPT !.todo = t, !.sure = FALSE, !.loaded = TRUE,
                           !.live = Owners]
<1>1. /\ c \in ProcType /\ c.at = "examine" /\ t \in SUBSET Agents
      /\ v \in SUBSET Owners /\ c.snap[a] # None
  BY LiveFacts, ProcFacts
  DEF OwnerInv, TypeOK, ProcessOK, ListingOK, Discovering
<1>2. \A b \in Agents : c.snap[b] # None /\ c.snap[b].owner \notin v
                          => pane[c.snap[b].owner] = "gone"
  BY LiveFacts
<1>3. \A b \in Agents : c.snap[b] # None => c.snap[b].owner \in Owners
  BY <1>1, ProcFacts, MarkerFacts
<1>4. CASE /\ Ok /\ OwnerAvailable(p, c.snap[a]) /\ lock[a] = None
           /\ lock' = [lock EXCEPT ![a] = p]
           /\ proc' = [proc EXCEPT ![p] = d1]
  <2>1. c.snap[a].owner \notin v BY <1>4 DEF OwnerAvailable
  <2> HIDE DEF c, v, t
  <2>2. /\ d1 \in ProcType /\ d1.at = "compare" /\ d1.agent = a
        /\ d1.todo = c.todo /\ d1.snap = c.snap /\ d1.goal = c.goal
        /\ d1.loaded = TRUE /\ d1.live = v /\ d1.sure = c.sure
    BY <1>1 DEF ProcType, Labels
  <2> HIDE DEF d1
  <2>3. ForeignStep(p, a, d1)
    BY <1>1, <1>2, <1>4, <2>1, <2>2, ProcFacts DEF ForeignStep, c, v
  <2>4. QED BY <2>2, <2>3
<1>5. CASE /\ proc' = [proc EXCEPT ![p] = d2] /\ UNCHANGED lock
  <2> HIDE DEF c, v, t
  <2>2. /\ d2 \in ProcType /\ d2.at = "examine"
        /\ d2.todo = t /\ d2.snap = c.snap /\ d2.goal = c.goal
        /\ d2.loaded = TRUE /\ d2.live = v /\ d2.sure = FALSE
    BY <1>1 DEF ProcType, Labels
  <2> HIDE DEF d2
  <2>3. ForeignStep(p, a, d2)
    BY <1>2, <1>5, <2>2 DEF ForeignStep, c, t
  <2>4. QED BY <2>2, <2>3
<1>6. CASE /\ Ok /\ ~OwnerAvailable(p, c.snap[a])
           /\ proc' = [proc EXCEPT ![p] = d3] /\ UNCHANGED lock
  <2>1. c.snap[a].owner \in v BY <1>6 DEF OwnerAvailable
  <2> HIDE DEF c, v, t
  <2>2. /\ d3 \in ProcType /\ d3.at = "examine"
        /\ d3.todo = t /\ d3.snap = c.snap /\ d3.goal = c.goal
        /\ d3.loaded = TRUE /\ d3.live = v /\ d3.sure = c.sure
    BY <1>1 DEF ProcType, Labels
  <2> HIDE DEF d3
  <2>3. ForeignStep(p, a, d3)
    BY <1>2, <1>6, <2>1, <2>2, ProcFacts DEF ForeignStep, c, t, v
  <2>4. QED BY <2>2, <2>3
<1>7. CASE proc' = [proc EXCEPT ![p] = d4] /\ UNCHANGED lock
  <2> HIDE DEF c, t
  <2>2. /\ d4 \in ProcType /\ d4.at = "examine"
        /\ d4.todo = t /\ d4.snap = c.snap /\ d4.goal = c.goal
        /\ d4.loaded = TRUE /\ d4.live = Owners /\ d4.sure = FALSE
    BY <1>1 DEF ProcType, Labels
  <2> HIDE DEF d4
  <2>3. ForeignStep(p, a, d4)
    BY <1>2, <1>3, <1>7, <2>2 DEF ForeignStep, c, t
  <2>4. QED BY <2>2, <2>3
<1>8. known.todo = c.todo /\ proc \in [Owners -> ProcType]
  BY <1>1 DEF ProcType, OwnerInv, TypeOK
<1>9. CASE /\ proc' = [proc EXCEPT ![p].todo = @ \ {a}, ![p].sure = FALSE,
                                  ![p].loaded = TRUE, ![p].live = Owners]
           /\ UNCHANGED lock
  BY <1>1, <1>7, <1>8, <1>9
<1>10. QED BY <1>4, <1>5, <1>6, <1>8, <1>9 DEF ExamineForeign

LEMMA ExamineOwner ==
    ASSUME OwnerInv, NEW p \in Owners, NEW a \in Agents, Examine(p, a)
    PROVE  OwnerInv'
<1> DEFINE m == proc[p].snap[a]
<1>1. /\ proc[p] \in ProcType /\ pane[p] = "live" /\ proc[p].at = "examine"
      /\ ProcessOK(p) /\ a \in proc[p].todo
      /\ \A b \in Agents : reg[p][b] # None => reg[p][b].mark.owner = p
  BY RunsFacts DEF Examine
<1>2. m \in MarkerType
  BY <1>1, ProcFacts DEF ProcessOK, ListingOK, Discovering
<1>3. UNCHANGED <<world, ses, mark, resumed, saved, own>> BY DEF Examine
<1>4. \A b \in Agents : Same(b) BY <1>3 DEF Same
<1>5. ASSUME NEW sure \in BOOLEAN,
             proc' = [proc EXCEPT ![p] = Passed(p, a, sure)],
             lock' = lock, Ok \/ Fails,
             reg' = reg \/ (Adopt(p, a, m) /\ m.owner = p /\ Alive(a))
      PROVE  OwnerInv'
  <2> DEFINE d == Passed(p, a, sure)
  <2>1. /\ d \in ProcType /\ d.at = "examine" /\ d.snap = proc[p].snap
    BY PassedFacts DEF OwnerInv
  <2>2. proc' = [proc EXCEPT ![p] = d] BY <1>5
  <2> HIDE DEF d
  <2>3. proc' \in [Owners -> ProcType] /\ proc'[p] = d
    BY <2>1, <2>2, Moves DEF OwnerInv
  <2>4. faults' \in 0..MaxFaults BY <1>5, FaultFacts DEF OwnerInv
  <2>5. /\ reg' \in [Owners -> [Agents -> EntryType \cup {None}]]
        /\ \A q \in Owners : q # p => reg'[q] = reg[q]
        /\ \A b \in Agents : b # a => reg'[p][b] = reg[p][b]
        /\ \/ reg'[p][a] = reg[p][a]
           \/ /\ reg'[p][a].mark.owner = p
              /\ Alive(a) => mark[a] # None /\ mark[a].owner = p
    <3>1. CASE reg' = reg BY <3>1 DEF OwnerInv, TypeOK
    <3>2. CASE Adopt(p, a, m) /\ m.owner = p /\ Alive(a)
      <4>1. mark[a] = m
        BY <1>1, <1>2, <3>2, MarkerFacts DEF ProcessOK, ListingOK
      <4>2. QED BY <1>2, <3>2, <4>1, AdoptedReg, MarkerFacts DEF OwnerInv
    <3>3. QED BY <1>5, <3>1, <3>2
  <2>6. TypeOK' BY <1>3, <1>5, <2>3, <2>4, <2>5 DEF OwnerInv, TypeOK, world
  <2>7. Step(p, d)
    <3>1. \A b \in Agents : Unknown(b) => d.snap[b] = None /\ reg'[p][b] = None
      <4>1. ~Unknown(a) BY <1>2, MarkerFacts DEF Unknown
      <4>2. QED BY <2>1, <2>5, <4>1 DEF Unknown
    <3>2. \A b \in Agents :
            \/ reg'[p][b] = None
            \/ /\ reg'[p][b].mark.owner = p
               /\ \/ reg[p][b] # None
                  \/ Alive(b)' => mark'[b] # None /\ mark'[b].owner = p
      BY <1>1, <1>3, <2>5 DEF Alive
    <3>3. QED
      BY <1>1, <1>3, <1>4, <1>5, <2>1, <2>2, <2>5, <3>1, <3>2
      DEF Step, world, Launching
  <2>8. LaunchOK(p)' /\ ListingOK(p)' /\ ClaimOK(p)' /\ ResolveOK(p)'
    <3>1. proc'[p] = Passed(p, a, sure) BY <2>3 DEF d
    <3>2. proc[p].at \in Discovering BY <1>1 DEF Discovering
    <3>3. QED BY <1>3, <3>1, <3>2, PassedOwner DEF world
  <2>9. QED BY <2>6, <2>7, <2>8, StepKeeps
<1>6. CASE Alive(a) /\ ExamineOwn(p, a)
  BY <1>5, <1>6, OrphanFacts DEF ExamineOwn, OwnerInv
<1>7. CASE ExamineGone(p, a)
  BY <1>5, <1>7, OrphanFacts DEF ExamineGone, OwnerInv
<1>8. CASE Alive(a) /\ ExamineForeign(p, a)
  <2>1. PICK d \in ProcType : ForeignStep(p, a, d)
    BY <1>1, <1>8, ForeignFacts
  <2>2. proc' = [proc EXCEPT ![p] = d] BY <2>1 DEF ForeignStep
  <2>3. proc' \in [Owners -> ProcType] /\ proc'[p] = d
    BY <2>2, Moves DEF OwnerInv
  <2>4. reg' = reg /\ faults' \in 0..MaxFaults
    BY <1>8, FaultFacts DEF ExamineForeign, OwnerInv
  <2>5. /\ lock' \in [Agents -> Owners \cup {None}]
        /\ \A b \in Agents : lock[b] \in Owners => lock'[b] = lock[b]
    BY <2>1, NoneAssumption DEF ForeignStep, OwnerInv, TypeOK
  <2>6. TypeOK' BY <1>3, <2>3, <2>4, <2>5 DEF OwnerInv, TypeOK, world
  <2>7. Step(p, d)
    <3>1. \A b \in Agents : Unknown(b) => d.snap[b] = None /\ reg'[p][b] = None
      BY <2>1, <2>4 DEF ForeignStep, Unknown
    <3>2. d.at # "down" /\ d.at \notin Launching
      BY <2>1 DEF ForeignStep, Launching
    <3>3. \A q \in Owners : q # p => reg'[q] = reg[q] BY <2>4
    <3>4. \A b \in Agents : lock[b] \in Owners \ {p} => lock'[b] = lock[b]
      BY <2>5
    <3>5. \A b \in Agents : \/ reg'[p][b] = None
                            \/ reg'[p][b].mark.owner = p /\ reg[p][b] # None
      BY <1>1, <2>4
    <3>6. QED
      BY <1>1, <1>3, <1>4, <2>2, <3>1, <3>2, <3>3, <3>4, <3>5 DEF Step, world
  <2>8. LaunchOK(p)' /\ ResolveOK(p)'
    BY <2>1, <2>3 DEF ForeignStep, LaunchOK, Launching, ResolveOK
  <2>9. ListingOK(p)'
    <3>1. ListingOK(p) BY <1>1 DEF ProcessOK
    <3>2. d.at \in Discovering /\ d.todo \subseteq proc[p].todo
      BY <2>1 DEF ForeignStep, Discovering
    <3>3. /\ d.snap = proc[p].snap
          /\ \A b \in Agents : d.snap[b] # None /\ d.snap[b].owner \notin d.live
                           => pane[d.snap[b].owner] = "gone"
      BY <2>1 DEF ForeignStep
    <3>4. QED
      BY <1>1, <1>3, <2>3, <3>1, <3>2, <3>3
      DEF ListingOK, Discovering, Alive, world
  <2>10. ClaimOK(p)'
    BY <1>1, <1>3, <2>1, <2>3
    DEF ForeignStep, ClaimOK, Claiming, world, OwnerInv, TypeOK
  <2>11. QED BY <2>6, <2>7, <2>8, <2>9, <2>10, StepKeeps
<1>9. QED BY <1>6, <1>7, <1>8 DEF Examine

LEMMA ClaimFacts ==
    ASSUME OwnerInv, NEW p \in Owners, proc[p].at \in Claiming
    PROVE  \E a \in Agents :
             /\ a = proc[p].agent /\ a \in proc[p].todo /\ lock[a] = p
             /\ proc[p].snap[a] \in MarkerType
             /\ pane[proc[p].snap[a].owner] = "gone"
             /\ proc[p].snap[a].owner # p
             /\ proc[p].at = "store" /\ Alive(a) => mark[a] = proc[p].snap[a]
             /\ ~Unknown(a)
<1>1. /\ proc[p] \in ProcType /\ ProcessOK(p) /\ proc[p].at # "down"
  BY DEF OwnerInv, TypeOK, Claiming
<1>2. /\ proc[p].agent \in proc[p].todo /\ proc[p].agent \in Agents
      /\ lock[proc[p].agent] = p
  BY <1>1, ProcFacts DEF ProcessOK, ClaimOK
<1>3. proc[p].snap[proc[p].agent] \in MarkerType
  BY <1>1, <1>2, ProcFacts DEF ProcessOK, ListingOK, Claiming, Discovering
<1>4. pane[p] = "live" BY <1>1 DEF ProcessOK, PaneOK, Running
<1>5. /\ pane[proc[p].snap[proc[p].agent].owner] = "gone"
      /\ proc[p].at = "store" /\ Alive(proc[p].agent)
           => mark[proc[p].agent] = proc[p].snap[proc[p].agent]
  BY <1>1 DEF ProcessOK, ClaimOK
<1>6. ~Unknown(proc[p].agent) BY <1>3, MarkerFacts DEF Unknown
<1>7. QED BY <1>2, <1>3, <1>4, <1>5, <1>6

LEMMA CompareOwner ==
    ASSUME OwnerInv, NEW p \in Owners, Compare(p)
    PROVE  OwnerInv'
<1>1. /\ proc[p] \in ProcType /\ pane[p] = "live" /\ proc[p].at = "compare"
      /\ ProcessOK(p)
      /\ \A b \in Agents : reg[p][b] # None => reg[p][b].mark.owner = p
  BY RunsFacts DEF Compare
<1>2. PICK a \in Agents :
        /\ a = proc[p].agent /\ a \in proc[p].todo /\ lock[a] = p
        /\ pane[proc[p].snap[a].owner] = "gone" /\ ~Unknown(a)
  BY <1>1, ClaimFacts DEF Claiming
<1>3. UNCHANGED <<world, ses, mark, resumed, saved, reg, own>> BY DEF Compare
<1>4. faults' \in 0..MaxFaults
  BY FaultFacts DEF Compare, OwnerInv
<1>5. CASE /\ SameMarker(p, a) /\ UNCHANGED lock
           /\ proc' = [proc EXCEPT ![p].at = "store"]
  <2> DEFINE d == [proc[p] EXCEPT !.at = "store"]
  <2>1. /\ d \in ProcType /\ d.at = "store" /\ d.agent = a
        /\ d.todo = proc[p].todo /\ d.snap = proc[p].snap
        /\ d.loaded = proc[p].loaded /\ d.live = proc[p].live
    BY <1>1, <1>2 DEF ProcType, Labels
  <2>2. proc' = [proc EXCEPT ![p] = d] BY <1>5
  <2> HIDE DEF d
  <2>3. proc' \in [Owners -> ProcType] /\ proc'[p] = d
    BY <2>1, <2>2, Moves DEF OwnerInv
  <2>4. TypeOK' BY <1>3, <1>4, <1>5, <2>3 DEF OwnerInv, TypeOK, world
  <2>5. Step(p, d)
    BY <1>1, <1>3, <1>5, <2>1, <2>2
    DEF Step, world, Launching, Same, Unknown
  <2>6. ListingOK(p)'
    BY <1>1, <1>3, <2>1, <2>3
    DEF ProcessOK, ListingOK, Discovering, Alive, world
  <2>7. LaunchOK(p)' /\ ResolveOK(p)'
    BY <2>1, <2>3 DEF LaunchOK, Launching, ResolveOK
  <2>8. ClaimOK(p)'
    BY <1>2, <1>3, <1>5, <2>1, <2>3 DEF ClaimOK, SameMarker, world
  <2>9. QED BY <2>4, <2>5, <2>6, <2>7, <2>8, StepKeeps
<1>6. CASE SkipOrphan(p, a) /\ Unlock(a)
  <2> DEFINE d == Passed(p, a, FALSE)
  <2>1. /\ d \in ProcType /\ d.at = "examine" /\ d.snap = proc[p].snap
    BY PassedFacts DEF OwnerInv
  <2>2. proc' = [proc EXCEPT ![p] = d] BY <1>6, OrphanFacts DEF OwnerInv
  <2> HIDE DEF d
  <2>3. proc' \in [Owners -> ProcType] /\ proc'[p] = d
    BY <2>1, <2>2, Moves DEF OwnerInv
  <2>4. /\ lock' \in [Agents -> Owners \cup {None}]
        /\ \A b \in Agents : lock[b] \in Owners \ {p} => lock'[b] = lock[b]
    BY <1>2, <1>6 DEF Unlock, OwnerInv, TypeOK
  <2>5. TypeOK' BY <1>3, <1>4, <2>3, <2>4 DEF OwnerInv, TypeOK, world
  <2>6. Step(p, d)
    BY <1>1, <1>3, <2>1, <2>2, <2>4
    DEF Step, world, Launching, Same, Unknown
  <2>7. LaunchOK(p)' /\ ListingOK(p)' /\ ClaimOK(p)' /\ ResolveOK(p)'
    <3>1. proc'[p] = Passed(p, a, FALSE) BY <2>3 DEF d
    <3>2. proc[p].at \in Discovering BY <1>1 DEF Discovering
    <3>3. QED BY <1>3, <3>1, <3>2, PassedOwner DEF world
  <2>8. QED BY <2>5, <2>6, <2>7, StepKeeps
<1>7. QED BY <1>2, <1>5, <1>6 DEF Compare

LEMMA StoreOwner ==
    ASSUME OwnerInv, NEW p \in Owners, Store(p)
    PROVE  OwnerInv'
<1>1. /\ proc[p] \in ProcType /\ pane[p] = "live" /\ proc[p].at = "store"
      /\ ProcessOK(p)
      /\ \A b \in Agents : reg[p][b] # None => reg[p][b].mark.owner = p
  BY RunsFacts DEF Store
<1>2. PICK a \in Agents :
        /\ a = proc[p].agent /\ a \in proc[p].todo /\ lock[a] = p
        /\ proc[p].snap[a] \in MarkerType
        /\ proc[p].snap[a].owner # p /\ ~Unknown(a)
  BY <1>1, ClaimFacts DEF Claiming
<1> DEFINE m == Owned(proc[p].snap[a], p)
<1>3. m \in MarkerType /\ m.owner = p /\ m # None
  <2>1. m \in MarkerType /\ m.owner = p BY <1>2, MarkerFacts
  <2> HIDE DEF m
  <2>2. QED BY <2>1, MarkerFacts
<1>4. UNCHANGED <<world, ses, resumed, saved, own>> /\ Unlock(a)
  BY <1>2 DEF Store
<1>5. /\ lock' \in [Agents -> Owners \cup {None}]
      /\ \A b \in Agents : lock[b] \in Owners \ {p} => lock'[b] = lock[b]
  BY <1>2, <1>4 DEF Unlock, OwnerInv, TypeOK
<1>6. \/ /\ Alive(a) /\ Write(a, m, TRUE) /\ Adopt(p, a, m)
         /\ NextOrphan(p, a)
      \/ /\ Alive(a) /\ Write(a, m, FALSE) /\ UNCHANGED reg
         /\ SkipOrphan(p, a)
      \/ /\ ~Alive(a) /\ Ok /\ UNCHANGED <<mark, reg>>
         /\ NextOrphan(p, a)
  BY <1>2 DEF Store
<1> HIDE DEF m
<1>7. /\ mark' \in [Agents -> MarkerType \cup {None}]
      /\ faults' \in 0..MaxFaults
      /\ mark'[a] = mark[a] \/ (Alive(a) /\ mark'[a] = m)
      /\ \A b \in Agents : b # a => mark'[b] = mark[b]
      /\ Alive(a) /\ Adopt(p, a, m) => reg' = reg \/ mark'[a] = m
  <2>1. CASE Alive(a) /\ Write(a, m, TRUE)
    BY <1>3, <2>1, WriteFacts DEF OwnerInv
  <2>2. CASE Alive(a) /\ Write(a, m, FALSE) /\ UNCHANGED reg
    BY <1>3, <2>2, WriteFacts DEF OwnerInv
  <2>3. CASE ~Alive(a) /\ Ok /\ UNCHANGED mark
    <3>1. faults' \in 0..MaxFaults BY <2>3, FaultFacts DEF OwnerInv
    <3>2. QED BY <2>3, <3>1 DEF OwnerInv, TypeOK
  <2>4. QED BY <1>6, <2>1, <2>2, <2>3
<1>8. /\ reg' \in [Owners -> [Agents -> EntryType \cup {None}]]
      /\ \A q \in Owners : q # p => reg'[q] = reg[q]
      /\ \A b \in Agents : b # a => reg'[p][b] = reg[p][b]
      /\ \/ reg'[p][a] = reg[p][a]
         \/ /\ reg'[p][a].mark.owner = p
            /\ Alive(a) => mark'[a] = m
  <2>1. CASE reg' = reg BY <2>1 DEF OwnerInv, TypeOK
  <2>2. CASE Alive(a) /\ Adopt(p, a, m) /\ reg' # reg
    BY <1>3, <1>7, <2>2, AdoptedReg DEF OwnerInv
  <2>3. QED BY <1>6, <2>1, <2>2
<1>9. \E sure \in BOOLEAN : proc' = [proc EXCEPT ![p] = Passed(p, a, sure)]
  BY <1>6, OrphanFacts DEF OwnerInv
<1>10. PICK sure \in BOOLEAN : proc' = [proc EXCEPT ![p] = Passed(p, a, sure)]
  BY <1>9
<1> DEFINE d == Passed(p, a, sure)
<1>11. d \in ProcType /\ d.at = "examine" /\ d.snap = proc[p].snap
  BY PassedFacts DEF OwnerInv
<1>12. proc' = [proc EXCEPT ![p] = d] BY <1>10
<1> HIDE DEF d
<1>13. proc' \in [Owners -> ProcType] /\ proc'[p] = d
  BY <1>11, <1>12, Moves DEF OwnerInv
<1>14. TypeOK'
  BY <1>4, <1>5, <1>7, <1>8, <1>13 DEF OwnerInv, TypeOK, world
<1>15. Step(p, d)
  <2>1. \A b \in Agents : Same(b) \/ Written(p, b)
    BY <1>1, <1>2, <1>3, <1>4, <1>7
    DEF Same, Written, Authority, Running, Alive
  <2>2. \A b \in Agents : Unknown(b) => d.snap[b] = None /\ reg'[p][b] = None
    BY <1>2, <1>8, <1>11 DEF Unknown
  <2>3. \A b \in Agents :
          \/ reg'[p][b] = None
          \/ /\ reg'[p][b].mark.owner = p
             /\ \/ reg[p][b] # None
                \/ Alive(b)' => mark'[b] # None /\ mark'[b].owner = p
    BY <1>1, <1>3, <1>4, <1>8 DEF Alive
  <2>4. QED
    BY <1>1, <1>4, <1>5, <1>8, <1>11, <1>12, <2>1, <2>2, <2>3
    DEF Step, world, Launching
<1>16. LaunchOK(p)' /\ ListingOK(p)' /\ ClaimOK(p)' /\ ResolveOK(p)'
  <2>1. proc'[p] = Passed(p, a, sure) BY <1>13 DEF d
  <2>2. proc[p].at \in Discovering BY <1>1 DEF Discovering
  <2>3. \A b \in Agents : \/ mark'[b] = mark[b]
                          \/ proc[p].snap[b] # None => proc[p].snap[b].owner # p
    BY <1>2, <1>7
  <2>4. QED BY <1>4, <2>1, <2>2, <2>3, PassedOwner DEF world
<1>17. QED BY <1>14, <1>15, <1>16, StepKeeps

LEMMA EndDiscoveryOwner ==
    ASSUME OwnerInv, NEW p \in Owners, EndDiscovery(p)
    PROVE  OwnerInv'
<1>1. /\ proc[p] \in ProcType /\ pane[p] = "live" /\ proc[p].at = "examine"
      /\ ProcessOK(p)
      /\ \A b \in Agents : reg[p][b] # None => reg[p][b].mark.owner = p
  BY RunsFacts DEF EndDiscovery
<1>2. /\ UNCHANGED <<world, ses, mark, lock, resumed, saved, reg, faults>>
      /\ own' = [own EXCEPT ![p] = @ \cup (resumed \ Bound(p))]
  BY DEF EndDiscovery
<1>3. own' \in [Owners -> SUBSET Ids]
  BY <1>2 DEF OwnerInv, TypeOK
<1> DEFINE t == Placeholders(p)
           d == [Idle EXCEPT !.at = "resolve", !.goal = proc[p].goal,
                             !.sure = proc[p].sure, !.todo = t]
<1>4. proc' = [proc EXCEPT ![p] = Idle] \/ proc' = [proc EXCEPT ![p] = d]
  BY DEF EndDiscovery
<1>5. t \in SUBSET Agents /\ \A b \in t : reg[p][b] # None
  BY DEF Placeholders
<1> HIDE DEF t
<1>6. /\ d \in ProcType /\ d.at = "resolve" /\ d.todo = t
      /\ d.snap = [a \in Agents |-> None]
  BY <1>1, <1>5, IdleFacts DEF ProcType, Labels
<1> HIDE DEF d
<1>7. ASSUME NEW e \in ProcType, proc' = [proc EXCEPT ![p] = e],
             e.at \in {"run", "resolve"}, e.snap = [a \in Agents |-> None],
             e.at = "resolve" => e.todo = t
      PROVE  OwnerInv'
  <2>1. proc' \in [Owners -> ProcType] /\ proc'[p] = e
    BY <1>7, Moves DEF OwnerInv
  <2>2. TypeOK' BY <1>2, <1>3, <2>1 DEF OwnerInv, TypeOK, world
  <2>3. Step(p, e)
    BY <1>1, <1>2, <1>7 DEF Step, world, Launching, Same, Unknown
  <2>4. LaunchOK(p)' /\ ListingOK(p)' /\ ClaimOK(p)' /\ ResolveOK(p)'
    BY <1>2, <1>5, <1>7, <2>1
    DEF LaunchOK, Launching, ListingOK, Discovering, ClaimOK, Claiming, ResolveOK
  <2>5. QED BY <2>2, <2>3, <2>4, StepKeeps
<1>8. QED BY <1>4, <1>6, <1>7, IdleFacts

-----------------------------------------------------------------------------
(* Binding and resumption *)

LEMMA PruneOwner ==
    ASSUME OwnerInv, NEW p \in Owners, Prune(p)
    PROVE  OwnerInv'
<1> DEFINE r == [a \in Agents |-> IF Alive(a) THEN reg[p][a] ELSE None]
           t == {a \in Placeholders(p) : Alive(a)}
           d == [proc[p] EXCEPT !.at = "resolve", !.todo = t]
<1>1. /\ proc[p] \in ProcType /\ pane[p] = "live" /\ proc[p].at = "run"
      /\ ProcessOK(p) /\ reg[p] \in [Agents -> EntryType \cup {None}]
      /\ \A b \in Agents : reg[p][b] # None => reg[p][b].mark.owner = p
  BY RunsFacts DEF Prune
<1>2. /\ UNCHANGED <<world, ses, mark, lock, resumed, saved, faults>>
      /\ own' = [own EXCEPT ![p] = @ \cap resumed]
      /\ reg' = [reg EXCEPT ![p] = r]
  BY DEF Prune
<1>3. own' \in [Owners -> SUBSET Ids]
  BY <1>2 DEF OwnerInv, TypeOK
<1>4. /\ r \in [Agents -> EntryType \cup {None}]
      /\ \A b \in Agents : r[b] = reg[p][b] \/ r[b] = None
      /\ t \in SUBSET Agents /\ \A b \in t : r[b] # None
  BY <1>1 DEF Placeholders
<1>5. proc' = proc \/ proc' = [proc EXCEPT ![p] = d]
  BY DEF Prune
<1> HIDE DEF t, r
<1>6. /\ d \in ProcType /\ d.at = "resolve" /\ d.todo = t
      /\ d.snap = proc[p].snap
  BY <1>1, <1>4 DEF ProcType, Labels
<1>7. proc = [proc EXCEPT ![p] = proc[p]] BY DEF OwnerInv, TypeOK
<1> HIDE DEF d
<1>8. \A b \in Agents : proc[p].snap[b] = None
  BY <1>1 DEF ProcessOK, ListingOK, Discovering
<1>9. /\ reg' \in [Owners -> [Agents -> EntryType \cup {None}]]
      /\ reg'[p] = r /\ \A q \in Owners : q # p => reg'[q] = reg[q]
  BY <1>2, <1>4, RegRowFacts DEF OwnerInv
<1>10. ASSUME NEW e \in ProcType, proc' = [proc EXCEPT ![p] = e],
              e.at \in {"run", "resolve"}, e.snap = proc[p].snap,
              e.at = "resolve" => e.todo = t
       PROVE  OwnerInv'
  <2>1. proc' \in [Owners -> ProcType] /\ proc'[p] = e
    BY <1>10, Moves DEF OwnerInv
  <2>2. TypeOK' BY <1>2, <1>3, <1>9, <2>1 DEF OwnerInv, TypeOK, world
  <2>3. Step(p, e)
    BY <1>1, <1>2, <1>4, <1>8, <1>9, <1>10
    DEF Step, world, Launching, Same, Unknown
  <2>4. LaunchOK(p)' /\ ListingOK(p)' /\ ClaimOK(p)' /\ ResolveOK(p)'
    BY <1>2, <1>4, <1>8, <1>9, <1>10, <2>1
    DEF LaunchOK, Launching, ListingOK, Discovering, ClaimOK, Claiming, ResolveOK
  <2>5. QED BY <2>2, <2>3, <2>4, StepKeeps
<1>11. QED BY <1>1, <1>5, <1>6, <1>7, <1>10

\* What the resolution of a placeholder does.
Placed(p, a, d) ==
    /\ proc' = [proc EXCEPT ![p] = d]
    /\ d.at \in {"run", "resolve"} /\ d.snap = proc[p].snap
    /\ d.at = "resolve" => /\ d.todo = proc[p].todo \ {a}
                           /\ d.goal = proc[p].goal /\ d.sure = proc[p].sure
                           /\ d.loaded = proc[p].loaded
                           /\ d.live = proc[p].live
    /\ d.at = "run" => d.sure = FALSE

LEMMA PlacedFacts ==
    ASSUME OwnerInv, NEW p \in Owners, NEW a \in Agents,
           proc[p].at = "resolve", NextPlaceholder(p, a)
    PROVE  \E d \in ProcType : Placed(p, a, d)
<1> DEFINE c == proc[p]
           t == c.todo \ {a}
           d == [c EXCEPT !.todo = t]
<1>1. c \in ProcType /\ c.at = "resolve" /\ t \in SUBSET Agents
      /\ c.snap = [b \in Agents |-> None]
  <2>1. c \in ProcType /\ c.at = "resolve" /\ ListingOK(p)
    BY DEF OwnerInv, TypeOK, ProcessOK
  <2>2. \A b \in Agents : c.snap[b] = None
    BY <2>1 DEF ListingOK, Discovering
  <2>3. c.snap = [b \in Agents |-> None] BY <2>1, <2>2, ProcFacts
  <2>4. QED BY <2>1, <2>3, ProcFacts
<1>2. proc' = [proc EXCEPT ![p] = Idle] \/ proc' = [proc EXCEPT ![p] = d]
  BY DEF NextPlaceholder
<1> HIDE DEF c, t
<1>3. /\ d \in ProcType /\ d.at = "resolve" /\ d.todo = t /\ d.snap = c.snap
      /\ d.goal = c.goal /\ d.sure = c.sure /\ d.loaded = c.loaded
      /\ d.live = c.live
  BY <1>1 DEF ProcType, Labels
<1> HIDE DEF d
<1>4. Placed(p, a, d) \/ Placed(p, a, Idle)
  BY <1>1, <1>2, <1>3, IdleFacts DEF Placed, c, t
<1>5. QED BY <1>3, <1>4, IdleFacts

LEMMA ChoiceFacts ==
    ASSUME TypeOK, NEW p \in Owners, NEW a \in Agents, NEW s \in Choice(p, a)
    PROVE  /\ s \in Listed(a) /\ s \notin Bound(p) /\ s \in Ids
           /\ s \notin reg[p][a].pre
           /\ reg[p][a].mark.phase = "resolved" => s = reg[p][a].mark.id
           /\ a \in Codex /\ reg[p][a].mark.phase # "resolved" => s = writes[a]
<1>1. s \in Candidates(p, a) BY DEF Choice, Guess
<1>2. /\ reg[p][a].mark.phase = "resolved" => s = reg[p][a].mark.id
      /\ a \in Codex /\ reg[p][a].mark.phase # "resolved" => s = writes[a]
  BY DEF Choice, Correlated
<1>3. QED BY <1>1, <1>2, ListedFacts DEF Candidates, Taken

\* The effects of Resolve on a session: nothing, or a conversation is chosen
\* and written to the marker, and to the registry when it was read back.
Chosen(p, a, s) ==
    LET m == Resolved(reg[p][a].mark, s) IN
    /\ Alive(a) /\ reg[p][a] # None /\ s \in Choice(p, a)
    /\ \/ /\ mark' = [mark EXCEPT ![a] = m]
          /\ reg' = [reg EXCEPT ![p][a].mark = m, ![p][a].key = s]
       \/ /\ mark' = mark \/ mark' = [mark EXCEPT ![a] = m]
          /\ reg' = reg

LEMMA ResolveEffect ==
    ASSUME OwnerInv, NEW p \in Owners, NEW a \in Agents, Resolve(p, a)
    PROVE  /\ (reg' = reg /\ mark' = mark) \/ \E s \in Ids : Chosen(p, a, s)
           /\ faults' \in 0..MaxFaults
<1>1. reg[p][a] # None
  BY DEF OwnerInv, ProcessOK, ResolveOK, Resolve
<1>2. CASE Alive(a) /\ Choice(p, a) # {}
  <2>1. PICK s \in Choice(p, a) :
          LET m == Resolved(reg[p][a].mark, s) IN
          \/ /\ Write(a, m, TRUE)
             /\ reg' = [reg EXCEPT ![p][a].mark = m, ![p][a].key = s]
          \/ Write(a, m, FALSE) /\ UNCHANGED reg
    BY <1>2 DEF Resolve
  <2>2. s \in Ids BY ChoiceFacts DEF OwnerInv
  <2>3. Chosen(p, a, s)
    BY <1>1, <1>2, <2>1 DEF Chosen, Write
  <2>4. faults' \in 0..MaxFaults
    BY <2>1, FaultFacts DEF Write, OwnerInv
  <2>5. QED BY <2>2, <2>3, <2>4
<1>3. CASE ~(Alive(a) /\ Choice(p, a) # {})
  BY <1>3 DEF Resolve, OwnerInv, TypeOK
<1>4. QED BY <1>2, <1>3

LEMMA ChosenFacts ==
    ASSUME OwnerInv, NEW p \in Owners, NEW a \in Agents, NEW s \in Ids,
           Chosen(p, a, s)
    PROVE  LET m == Resolved(reg[p][a].mark, s) IN
           /\ m \in MarkerType /\ m.phase = "resolved" /\ m.id = s
           /\ m.owner = reg[p][a].mark.owner
           /\ mark' \in [Agents -> MarkerType \cup {None}]
           /\ \A b \in Agents : b # a => mark'[b] = mark[b]
           /\ mark'[a] = m \/ mark'[a] = mark[a]
           /\ reg' \in [Owners -> [Agents -> EntryType \cup {None}]]
           /\ \A q \in Owners : q # p => reg'[q] = reg[q]
           /\ \A b \in Agents : b # a => reg'[p][b] = reg[p][b]
           /\ \/ reg'[p][a] = reg[p][a]
              \/ /\ reg'[p][a] # None /\ reg'[p][a].mark = m
                 /\ reg'[p][a].key = s /\ reg'[p][a].pre = reg[p][a].pre
                 /\ mark'[a] = m
<1> DEFINE m == Resolved(reg[p][a].mark, s)
           e == reg[p][a]
           f == [e EXCEPT !.mark = m, !.key = s]
<1>1. e \in EntryType /\ TypeOK
  BY DEF OwnerInv, TypeOK, Chosen
<1>2. /\ m \in MarkerType /\ m.phase = "resolved" /\ m.id = s
      /\ m.owner = e.mark.owner
  BY <1>1, EntryFacts, MarkerFacts
<1>3. /\ mark' \in [Agents -> MarkerType \cup {None}]
      /\ \A b \in Agents : b # a => mark'[b] = mark[b]
      /\ mark'[a] = m \/ mark'[a] = mark[a]
  BY <1>1, <1>2 DEF Chosen, TypeOK
<1> HIDE DEF m
<1>4. f \in EntryType /\ f.mark = m /\ f.key = s /\ f.pre = e.pre
  BY <1>1, <1>2 DEF EntryType
<1>5. CASE reg' = reg
  <2>1. reg \in [Owners -> [Agents -> EntryType \cup {None}]]
    BY <1>1 DEF TypeOK
  <2>2. QED BY <1>2, <1>3, <1>5, <2>1 DEF m
<1>6. CASE /\ mark' = [mark EXCEPT ![a] = m]
           /\ reg' = [reg EXCEPT ![p][a].mark = m, ![p][a].key = s]
  <2>1. reg' = [reg EXCEPT ![p][a] = f]
    BY <1>1, <1>6 DEF TypeOK
  <2>2. mark'[a] = m BY <1>1, <1>6 DEF TypeOK
  <2> HIDE DEF f
  <2>3. f \in EntryType \cup {None} /\ f # None BY <1>4, EntryFacts
  <2>4. /\ reg' \in [Owners -> [Agents -> EntryType \cup {None}]]
        /\ reg'[p][a] = f
        /\ \A q \in Owners, b \in Agents :
             q # p \/ b # a => reg'[q][b] = reg[q][b]
    <3>1. Put(p, a, f) BY <2>1 DEF Put
    <3>2. Changed(p, a, f) BY <1>1, <2>3, <3>1, RegFacts
    <3>3. QED BY <3>2 DEF Changed
  <2>5. \A q \in Owners : q # p => reg'[q] = reg[q]
    BY <1>1, <2>1 DEF TypeOK
  <2>6. QED BY <1>2, <1>3, <1>4, <2>2, <2>3, <2>4, <2>5 DEF m
<1>7. QED BY <1>5, <1>6 DEF Chosen, m

LEMMA ResolveOwner ==
    ASSUME OwnerInv, NEW p \in Owners, NEW a \in Agents, Resolve(p, a)
    PROVE  OwnerInv'
<1>1. /\ proc[p] \in ProcType /\ pane[p] = "live" /\ proc[p].at = "resolve"
      /\ ProcessOK(p) /\ a \in proc[p].todo /\ reg[p][a] # None
      /\ \A b \in Agents : reg[p][b] # None => reg[p][b].mark.owner = p
  BY RunsFacts DEF Resolve, ProcessOK, ResolveOK
<1>2. UNCHANGED <<world, ses, lock, resumed, saved, own>> BY DEF Resolve
<1>3. /\ mark' \in [Agents -> MarkerType \cup {None}]
      /\ faults' \in 0..MaxFaults
      /\ reg' \in [Owners -> [Agents -> EntryType \cup {None}]]
      /\ \A q \in Owners : q # p => reg'[q] = reg[q]
      /\ \A b \in Agents : b # a => reg'[p][b] = reg[p][b]
      /\ reg'[p][a] # None /\ reg'[p][a].mark.owner = p
      /\ \A b \in Agents : Same(b) \/ Written(p, b)
  <2>1. CASE reg' = reg /\ mark' = mark
    BY <1>1, <1>2, <2>1, ResolveEffect DEF OwnerInv, TypeOK, Same
  <2>2. CASE \E s \in Ids : Chosen(p, a, s)
    <3>1. PICK s \in Ids : Chosen(p, a, s) BY <2>2
    <3> DEFINE m == Resolved(reg[p][a].mark, s)
    <3>2. /\ m \in MarkerType /\ m.owner = p
          /\ mark' \in [Agents -> MarkerType \cup {None}]
          /\ \A b \in Agents : b # a => mark'[b] = mark[b]
          /\ mark'[a] = m \/ mark'[a] = mark[a]
          /\ reg' \in [Owners -> [Agents -> EntryType \cup {None}]]
          /\ \A q \in Owners : q # p => reg'[q] = reg[q]
          /\ \A b \in Agents : b # a => reg'[p][b] = reg[p][b]
          /\ \/ reg'[p][a] = reg[p][a]
             \/ reg'[p][a] # None /\ reg'[p][a].mark = m
      BY <1>1, <3>1, ChosenFacts
    <3> HIDE DEF m
    <3>3. \A b \in Agents : Same(b) \/ Written(p, b)
      BY <1>1, <1>2, <3>1, <3>2
      DEF Same, Written, Authority, Running, Alive, Chosen
    <3>4. QED BY <1>1, <3>2, <3>3, ResolveEffect
  <2>3. QED BY <2>1, <2>2, ResolveEffect
<1>4. PICK d \in ProcType : Placed(p, a, d)
  BY <1>1, PlacedFacts DEF Resolve
<1>5. proc' = [proc EXCEPT ![p] = d] BY <1>4 DEF Placed
<1>6. proc' \in [Owners -> ProcType] /\ proc'[p] = d
  BY <1>5, Moves DEF OwnerInv
<1>7. TypeOK' BY <1>2, <1>3, <1>6 DEF OwnerInv, TypeOK, world
<1>8. \A b \in Agents : d.snap[b] = None
  BY <1>1, <1>4 DEF Placed, ProcessOK, ListingOK, Discovering
<1>9. Step(p, d)
  <2>1. d.at # "down" /\ d.at \notin Launching BY <1>4 DEF Placed, Launching
  <2>2. \A b \in Agents : Unknown(b) => d.snap[b] = None /\ reg'[p][b] = None
    BY <1>1, <1>3, <1>8 DEF Unknown
  <2>3. \A b \in Agents : \/ reg'[p][b] = None
                          \/ reg'[p][b].mark.owner = p /\ reg[p][b] # None
    BY <1>1, <1>3
  <2>4. QED
    BY <1>1, <1>2, <1>3, <1>5, <2>1, <2>2, <2>3 DEF Step, world
<1>10. LaunchOK(p)' /\ ListingOK(p)' /\ ClaimOK(p)'
  BY <1>4, <1>6, <1>8
  DEF Placed, LaunchOK, Launching, ListingOK, Discovering, ClaimOK, Claiming
<1>11. ResolveOK(p)'
  <2>1. \A b \in Agents : reg[p][b] # None => reg'[p][b] # None
    BY <1>3
  <2>2. d.at = "resolve" => d.todo = proc[p].todo \ {a} BY <1>4 DEF Placed
  <2>3. QED BY <1>1, <1>6, <2>1, <2>2, ProcFacts DEF ProcessOK, ResolveOK
<1>12. QED BY <1>7, <1>9, <1>10, <1>11, StepKeeps

\* A resumption drops the entries of the conversation.
DroppedRow(p, s) ==
    [a \in Agents |-> IF reg[p][a] # None /\ reg[p][a].key = s
                      THEN None ELSE reg[p][a]]

LEMMA DecideOwner ==
    ASSUME OwnerInv, NEW p \in Owners, Decide(p)
    PROVE  OwnerInv'
<1>1. /\ proc[p] \in ProcType /\ pane[p] = "live" /\ proc[p].at = "resolve"
      /\ ProcessOK(p) /\ reg[p] \in [Agents -> EntryType \cup {None}]
      /\ \A b \in Agents : reg[p][b] # None => reg[p][b].mark.owner = p
      /\ proc[p].goal \in Ids
  BY RunsFacts, ProcFacts DEF Decide
<1> DEFINE r == DroppedRow(p, proc[p].goal)
<1>2. /\ UNCHANGED <<world, ses, mark, lock, saved, faults>>
      /\ proc' = [proc EXCEPT ![p] = Idle]
      /\ \/ /\ resumed' = resumed \cup {proc[p].goal}
            /\ own' = [own EXCEPT ![p] = @ \cup {proc[p].goal}]
            /\ reg' = [reg EXCEPT ![p] = r]
         \/ UNCHANGED <<resumed, own, reg>>
  BY DEF Decide, DroppedRow
<1>3. own' \in [Owners -> SUBSET Ids] /\ resumed' \in SUBSET Ids
  BY <1>1, <1>2 DEF OwnerInv, TypeOK
<1>4. /\ r \in [Agents -> EntryType \cup {None}]
      /\ \A b \in Agents : r[b] = reg[p][b] \/ r[b] = None
  BY <1>1 DEF DroppedRow
<1> HIDE DEF r
<1>5. /\ reg' \in [Owners -> [Agents -> EntryType \cup {None}]]
      /\ \A q \in Owners : q # p => reg'[q] = reg[q]
      /\ \A b \in Agents : reg'[p][b] = reg[p][b] \/ reg'[p][b] = None
  <2>1. CASE reg' = reg BY <2>1 DEF OwnerInv, TypeOK
  <2>2. CASE reg' = [reg EXCEPT ![p] = r]
    BY <1>4, <2>2, RegRowFacts DEF OwnerInv
  <2>3. QED BY <1>2, <2>1, <2>2
<1>6. proc' \in [Owners -> ProcType]
  BY <1>2, IdleFacts, Moves DEF OwnerInv
<1>7. TypeOK' BY <1>2, <1>3, <1>5, <1>6 DEF OwnerInv, TypeOK, world
<1>8. Step(p, Idle)
  BY <1>1, <1>2, <1>5, IdleFacts DEF Step, world, Launching, Same, Unknown
<1>9. QED BY <1>7, <1>8, StepToIdle

LEMMA KillOwner ==
    ASSUME OwnerInv, NEW p \in Owners, NEW a \in Agents, Kill(p, a)
    PROVE  OwnerInv'
<1>1. /\ proc[p] \in ProcType /\ pane[p] = "live" /\ proc[p].at = "run"
      /\ ProcessOK(p)
      /\ \A b \in Agents : reg[p][b] # None => reg[p][b].mark.owner = p
  BY RunsFacts DEF Kill
<1>2. /\ reg' \in [Owners -> [Agents -> EntryType \cup {None}]]
      /\ reg'[p][a] = None
      /\ \A q \in Owners, b \in Agents :
           q # p \/ b # a => reg'[q][b] = reg[q][b]
  <2>1. Put(p, a, None) BY KillRow
  <2>2. Changed(p, a, None) BY TypesHold, <2>1, RegFacts
  <2>3. QED BY <2>2 DEF Changed
<1>3. \A q \in Owners : q # p => reg'[q] = reg[q]
  BY DEF Kill, OwnerInv, TypeOK
<1>4. proc' = proc /\ proc = [proc EXCEPT ![p] = proc[p]]
  BY DEF OwnerInv, TypeOK, Kill
<1>5. TypeOK' BY <1>2, EndSessionFacts DEF OwnerInv, TypeOK, Kill
<1>6. \A b \in Agents : Same(b) \/ Ended(b)
  BY EndSessionFacts DEF OwnerInv, Same, Ended, Alive, Kill
<1>7. Step(p, proc[p])
  <2>1. UNCHANGED <<pane, lock>> BY EndSessionFacts DEF Kill, OwnerInv
  <2>2. \A b \in Agents : reg'[p][b] = reg[p][b] \/ reg'[p][b] = None
    BY <1>2
  <2>3. QED
    BY <1>1, <1>3, <1>4, <1>6, <2>1, <2>2 DEF Step, Launching, Unknown
<1>8. LaunchOK(p)' /\ ClaimOK(p)' /\ ResolveOK(p)'
  BY <1>1, <1>4 DEF LaunchOK, Launching, ClaimOK, Claiming, ResolveOK
<1>9. ListingOK(p)'
  BY <1>1, <1>4 DEF ProcessOK, ListingOK, Discovering
<1>10. QED BY <1>5, <1>7, <1>8, <1>9, StepKeeps

-----------------------------------------------------------------------------
(* Users, agents and other programs *)

LEMMA QuietOwner ==
    ASSUME OwnerInv, TypeOK', UNCHANGED <<pane, ses, mark, lock, proc, reg>>
    PROVE  OwnerInv'
BY DEF OwnerInv, ProcessOK, PaneOK, LaunchOK, KeepsOK, ListingOK, ClaimOK,
       ResolveOK, MarkOK, LaunchesDiffer, Running, Alive, Unknown

LEMMA SaveStateType ==
    ASSUME OwnerInv, NEW p \in Owners, SaveState(p)
    PROVE  saved' \in [Agents -> ContextType]
<1>1. reg[p] \in [Agents -> EntryType \cup {None}]
  BY DEF OwnerInv, TypeOK
<1>2. \A a \in Placeholders(p) : Context(reg[p][a]) \in ContextType
  BY <1>1, EntryFacts DEF Placeholders, Context, ContextType
<1>3. QED BY <1>2 DEF SaveState, OwnerInv, TypeOK

LEMMA QuietActions ==
    ASSUME OwnerInv,
           \/ \E p \in Owners : SaveState(p)
           \/ \E a \in Agents : Begins(a)
           \/ \E s \in Ids : Foreign(s) \/ ResumedEnds(s)
           \/ UNCHANGED vars
    PROVE  OwnerInv'
<1>1. CASE \E p \in Owners : SaveState(p)
  <2>1. TypeOK'
    BY <1>1, SaveStateType DEF OwnerInv, TypeOK, SaveState, world
  <2>2. QED BY <1>1, <2>1, QuietOwner DEF SaveState, world
<1>2. CASE \E a \in Agents : Begins(a)
  <2>1. TypeOK' BY <1>2 DEF OwnerInv, TypeOK, Begins
  <2>2. QED BY <1>2, <2>1, QuietOwner DEF Begins
<1>3. CASE \E s \in Ids : Foreign(s) \/ ResumedEnds(s)
  <2>1. TypeOK' BY <1>3 DEF OwnerInv, TypeOK, Foreign, ResumedEnds, world
  <2>2. QED BY <1>3, <2>1, QuietOwner DEF Foreign, ResumedEnds, world
<1>4. CASE UNCHANGED vars
  <2>1. TypeOK' BY <1>4 DEF OwnerInv, TypeOK, vars
  <2>2. QED BY <1>4, <2>1, QuietOwner DEF vars
<1>5. QED BY <1>1, <1>2, <1>3, <1>4

\* A process that is gone, with or without its pane.
LEMMA EndsOwner ==
    ASSUME OwnerInv, NEW p \in Owners, Ends(p),
           proc' \in [Owners -> ProcType], proc'[p] = Down,
           \A q \in Owners : q # p =>
             \/ proc'[q] = proc[q]
             \/ proc'[q] = [proc[q] EXCEPT !.sure = FALSE],
           \/ pane' = pane
           \/ pane' = [pane EXCEPT ![p] = "gone"] /\ pane[p] = "live",
           UNCHANGED <<ses, mark, writes, files, resumed, saved, faults, old>>
    PROVE  OwnerInv'
<1> DEFINE r == [a \in Agents |-> None]
<1>1. r \in [Agents -> EntryType \cup {None}] OBVIOUS
<1>2. reg' = [reg EXCEPT ![p] = r] BY DEF Ends
<1> HIDE DEF r
<1>3. /\ reg' \in [Owners -> [Agents -> EntryType \cup {None}]]
      /\ reg'[p] = r /\ \A q \in Owners : q # p => reg'[q] = reg[q]
  BY <1>1, <1>2, RegRowFacts DEF OwnerInv
<1>4. \A a \in Agents : reg'[p][a] = None BY <1>3 DEF r
<1>5. /\ lock' \in [Agents -> Owners \cup {None}]
      /\ own' \in [Owners -> SUBSET Ids]
      /\ \A a \in Agents, q \in Owners : q # p /\ lock[a] = q => lock'[a] = q
  BY DEF Ends, OwnerInv, TypeOK
<1>6. pane' \in [Owners -> {"new", "live", "gone"}] /\ PanesAge
      /\ \A q \in Owners : q # p => pane'[q] = pane[q]
  BY DEF OwnerInv, TypeOK, PanesAge
<1>7. TypeOK' BY <1>3, <1>5, <1>6 DEF OwnerInv, TypeOK
<1>8. \A q \in Owners : /\ proc'[q].snap = proc[q].snap \/ q = p
                        /\ proc'[q].at = proc[q].at \/ q = p
                        /\ proc'[q].agent = proc[q].agent \/ q = p
  BY DEF OwnerInv, TypeOK, ProcType
<1>9. \A a \in Agents : Unknown(a) => Unknown(a)'
  <2>1. \A a \in Agents : proc'[p].snap[a] = None BY IdleFacts
  <2>2. QED BY <1>3, <1>4, <1>8, <2>1 DEF Unknown
<1>10. \A q \in Owners : q # p => Spared(q)
  <2>1. TAKE q \in Owners
  <2>2. HAVE q # p
  <2>3. reg'[q] = reg[q] /\ (pane[q] = "live" => pane'[q] = "live")
    BY <1>3, <1>6, <2>2
  <2>4. \A a \in Agents :
         /\ lock[a] = q => lock'[a] = q
         /\ \/ /\ Alive(a)' => Alive(a) /\ mark'[a] = mark[a]
               /\ (ses'[a] = "none") = (ses[a] = "none")
            \/ Safe(q, a)
         /\ Unknown(a) => Unknown(a)' \/ Safe(q, a)
    BY <1>5, <1>9, <2>2 DEF Alive
  <2>5. QED BY <2>2, <2>3, <2>4 DEF Spared
<1>11. ProcessOK(p)'
  BY <1>4, IdleFacts
  DEF ProcessOK, PaneOK, LaunchOK, KeepsOK, ListingOK, ClaimOK, ResolveOK,
      Running, Launching, Discovering, Claiming
<1>12. \A q \in Owners : ProcessOK(q)'
  BY <1>6, <1>10, <1>11, SparedKeeps
<1>13. \A a \in Agents : MarkOK(a)'
  <2>1. TAKE a \in Agents
  <2>2. MarkOK(a) /\ (mark[a] # None => mark[a].owner \in Owners)
    BY MarkerFacts DEF OwnerInv, TypeOK
  <2>3. QED BY <1>6, <1>9, <2>2 DEF MarkOK, PanesAge, Alive
<1>14. LaunchesDiffer'
  <2>1. proc'[p].at \notin Launching BY IdleFacts DEF Launching
  <2>2. QED BY <1>8, <2>1 DEF OwnerInv, LaunchesDiffer
<1>15. QED BY <1>7, <1>12, <1>13, <1>14 DEF OwnerInv

LEMMA CrashOwner ==
    ASSUME OwnerInv, NEW p \in Owners, Crash(p)
    PROVE  OwnerInv'
<1>1. proc' = [proc EXCEPT ![p] = Down] BY DEF Crash
<1>2. /\ proc' \in [Owners -> ProcType] /\ proc'[p] = Down
      /\ \A q \in Owners : q # p => proc'[q] = proc[q]
  BY <1>1, IdleFacts, Moves DEF OwnerInv
<1>3. QED BY <1>2, EndsOwner DEF Crash, world

LEMMA PaneDiesOwner ==
    ASSUME OwnerInv, NEW p \in Owners, PaneDies(p)
    PROVE  OwnerInv'
<1>1. \A q \in Owners : /\ proc[q] \in ProcType
                        /\ [proc[q] EXCEPT !.sure = FALSE] \in ProcType
  <2>1. \A c \in ProcType : [c EXCEPT !.sure = FALSE] \in ProcType
    BY DEF ProcType
  <2>2. QED BY <2>1 DEF OwnerInv, TypeOK
<1>2. /\ proc' \in [Owners -> ProcType] /\ proc'[p] = Down
      /\ \A q \in Owners : q # p => proc'[q] = [proc[q] EXCEPT !.sure = FALSE]
  BY <1>1, IdleFacts DEF PaneDies
<1>3. QED BY <1>2, EndsOwner DEF PaneDies

LEMMA SessionEndsOwner ==
    ASSUME OwnerInv, NEW a \in Agents, SessionEnds(a)
    PROVE  OwnerInv'
<1>1. /\ UNCHANGED <<pane, lock, proc, reg>>
      /\ ses[a] # "none" /\ ses'[a] = "gone" /\ mark'[a] = None
      /\ \A b \in Agents : b # a => mark'[b] = mark[b] /\ ses'[b] = ses[b]
  BY EndSessionFacts DEF SessionEnds, OwnerInv, Alive
<1>2. TypeOK' BY EndSessionFacts DEF OwnerInv, TypeOK, SessionEnds
<1>3. \A b \in Agents : Unknown(b) => Unknown(b)' BY <1>1 DEF Unknown
<1>4. \A q \in Owners : Spared(q)
  BY <1>1, <1>3 DEF Spared, Alive
<1>5. PanesAge BY <1>1 DEF PanesAge
<1>6. \A q \in Owners : ProcessOK(q)' BY <1>4, <1>5, SparedKeeps
<1>7. \A b \in Agents : MarkOK(b)'
  <2>1. TAKE b \in Agents
  <2>2. MarkOK(b) BY DEF OwnerInv
  <2>3. CASE b = a BY <1>1, <2>3 DEF MarkOK
  <2>4. CASE b # a BY <1>1, <1>3, <2>2, <2>4 DEF MarkOK, Alive
  <2>5. QED BY <2>3, <2>4
<1>8. LaunchesDiffer' BY <1>1 DEF OwnerInv, LaunchesDiffer
<1>9. QED BY <1>2, <1>6, <1>7, <1>8 DEF OwnerInv

LEMMA InitOwner == Init => OwnerInv
<1> SUFFICES ASSUME Init PROVE OwnerInv
  OBVIOUS
<1>1. TypeOK
  <2>1. Lost \in ContextType BY DEF Lost, ContextType
  <2>2. QED BY <2>1, IdleFacts, FaultsAssumption DEF Init, TypeOK
<1>2. \A p \in Owners : ProcessOK(p)
  BY IdleFacts
  DEF Init, ProcessOK, PaneOK, LaunchOK, KeepsOK, ListingOK, ClaimOK,
      ResolveOK, Running, Launching, Discovering, Claiming
<1>3. \A a \in Agents : MarkOK(a)
  BY IdleFacts DEF Init, MarkOK, Unknown
<1>4. LaunchesDiffer BY IdleFacts DEF Init, LaunchesDiffer, Launching
<1>5. QED BY <1>1, <1>2, <1>3, <1>4 DEF OwnerInv

LEMMA NextOwner == OwnerInv /\ [Next]_vars => OwnerInv'
<1> SUFFICES ASSUME OwnerInv, [Next]_vars PROVE OwnerInv'
  OBVIOUS
<1>1. ASSUME NEW p \in Owners, Process(p) PROVE OwnerInv'
  BY <1>1, HoldOwner, MarkHolderOwner, StartAgentOwner, RegisterOwner,
     CompareOwner, StoreOwner, EndDiscoveryOwner, PruneOwner, QuietActions,
     DecideOwner, LaunchOwner, ExamineOwner, ResolveOwner, KillOwner,
     ResumeOwner
  DEF Process
<1>2. QED
  BY <1>1, StartOwner, CrashOwner, PaneDiesOwner, SessionEndsOwner,
     QuietActions
  DEF Next

-----------------------------------------------------------------------------
(* Theorems: one keeper *)

\* All thirteen variables are well typed in every behaviour: no process works on
\* an agent, an entry or a placeholder that is not there.
THEOREM TypeCorrect == Spec => []TypeOK
<1>1. OwnerInv => TypeOK BY DEF OwnerInv
<1>2. QED BY InitOwner, NextOwner, <1>1, PTL DEF Spec

\* Two processes never keep one live agent, for any number of panes that start
\* at once, with crashes and failed commands between any two steps of a claim.
THEOREM KeptByOne == Spec => []OneKeeper
<1>1. OwnerInv => OneKeeper
  BY DEF OwnerInv, ProcessOK, KeepsOK, OneKeeper
<1>2. QED BY InitOwner, NextOwner, <1>1, PTL DEF Spec

\* The ways of a marker: it comes, goes or stays; the launch goes on; it passes
\* from a process whose pane is gone; or its owner resolves it.
MarkMove(a) ==
    \/ mark[a] = None \/ mark'[a] = None \/ mark'[a] = mark[a]
    \/ mark[a].phase = "launching" /\ mark'[a].owner = mark[a].owner
    \/ pane[mark[a].owner] = "gone" /\ mark'[a].phase = mark[a].phase
    \/ mark'[a].phase = "resolved" /\ mark'[a].owner = mark[a].owner

\* Only its owner writes it.
MarkBy(p, a) ==
    mark'[a] = None \/ mark'[a] = mark[a] \/ mark'[a].owner = p

LEMMA ProcessMarks ==
    ASSUME OwnerInv, NEW p \in Owners, Process(p)
    PROVE  \A a \in Agents : MarkMove(a) /\ MarkBy(p, a)
<1> DEFINE Moved == \A a \in Agents : MarkMove(a) /\ MarkBy(p, a)
<1>1. ASSUME Hold(p) \/ StartAgent(p)
      PROVE  Moved
  <2>1. CASE UNCHANGED mark BY <2>1 DEF MarkMove, MarkBy
  <2>2. CASE EndSession(proc[p].agent)
    BY <2>2 DEF EndSession, MarkMove, MarkBy, OwnerInv, TypeOK
  <2>3. QED BY <1>1, <2>1, <2>2 DEF Hold, StartAgent
<1>2. ASSUME MarkHolder(p) PROVE Moved
  <2>1. PICK a \in Agents : /\ a = proc[p].agent /\ Unknown(a)
                            /\ proc[p].entry.mark \in MarkerType
                            /\ proc[p].entry.mark.owner = p
    BY <1>2, RunsFacts, EntryFacts
    DEF MarkHolder, ProcessOK, LaunchOK, Launching
  <2>2. /\ \A b \in Agents : b # a => mark'[b] = mark[b] \/ mark'[b] = None
        /\ mark'[a] \in {None, mark[a], proc[p].entry.mark}
    BY <1>2, <2>1 DEF MarkHolder, EndSession, Write, OwnerInv, TypeOK
  <2>3. QED BY <2>1, <2>2 DEF MarkMove, MarkBy, Unknown
<1>3. ASSUME Register(p) PROVE Moved
  <2> DEFINE e == proc[p].entry
             m == [e.mark EXCEPT !.phase = "unresolved"]
  <2>1. PICK a \in Agents : /\ a = proc[p].agent /\ e.mark \in MarkerType
                            /\ e.mark.phase = "launching" /\ e.mark.owner = p
                            /\ Alive(a) => mark[a] = e.mark
    BY <1>3, RunsFacts, EntryFacts
    DEF Register, ProcessOK, LaunchOK, Launching
  <2>2. m.owner = e.mark.owner BY <2>1 DEF MarkerType
  <2>3. \/ Alive(a) /\ (mark' = mark \/ mark' = [mark EXCEPT ![a] = m])
        \/ mark' = mark
    BY <1>3, <2>1 DEF Register, Write
  <2> HIDE DEF m, e
  <2>4. QED BY <2>1, <2>2, <2>3 DEF MarkMove, MarkBy, OwnerInv, TypeOK
<1>4. ASSUME Store(p) PROVE Moved
  <2> DEFINE m == Owned(proc[p].snap[proc[p].agent], p)
  <2>1. PICK a \in Agents : /\ a = proc[p].agent
                            /\ proc[p].snap[a] \in MarkerType
                            /\ pane[proc[p].snap[a].owner] = "gone"
                            /\ Alive(a) => mark[a] = proc[p].snap[a]
    BY <1>4, ClaimFacts DEF Store, Claiming
  <2>2. \/ Alive(a) /\ (mark' = mark \/ mark' = [mark EXCEPT ![a] = m])
        \/ mark' = mark
    BY <1>4, <2>1 DEF Store, Write
  <2>3. m.phase = proc[p].snap[a].phase /\ m.owner = p
    BY <2>1, MarkerFacts
  <2> HIDE DEF m
  <2>4. QED BY <2>1, <2>2, <2>3 DEF MarkMove, MarkBy, OwnerInv, TypeOK
<1>5. ASSUME NEW a \in Agents, Resolve(p, a) PROVE Moved
  <2>1. CASE mark' = mark BY <2>1 DEF MarkMove, MarkBy
  <2>2. CASE \E s \in Ids : Chosen(p, a, s)
    <3>1. PICK s \in Ids : Chosen(p, a, s) BY <2>2
    <3>2. mark[a].owner = p /\ reg[p][a].mark.owner = p
      <4>1. ProcessOK(p) BY DEF OwnerInv
      <4>2. QED BY <3>1, <4>1 DEF Chosen, ProcessOK, KeepsOK
    <3>3. QED BY <3>1, <3>2, ChosenFacts DEF MarkMove, MarkBy
  <2>3. QED BY <1>5, <2>1, <2>2, ResolveEffect
<1>6. ASSUME NEW a \in Agents, EndSession(a) PROVE Moved
  BY <1>6 DEF EndSession, MarkMove, MarkBy, OwnerInv, TypeOK
<1>7. CASE UNCHANGED mark BY <1>7 DEF MarkMove, MarkBy
<1>8. CASE \E a \in Agents : Kill(p, a) BY <1>6, <1>8 DEF Kill
<1>9. CASE \/ Compare(p) \/ EndDiscovery(p) \/ Prune(p) \/ SaveState(p)
           \/ Decide(p) \/ \E a \in Agents : Launch(p, a) \/ Examine(p, a)
           \/ \E s \in Ids : Resume(p, s)
  BY <1>7, <1>9
  DEF Compare, EndDiscovery, Prune, SaveState, Decide, Launch, Examine, Resume
<1>10. QED
  BY <1>1, <1>2, <1>3, <1>4, <1>5, <1>8, <1>9 DEF Process

LEMMA MarkMoves ==
    ASSUME OwnerInv, [Next]_vars
    PROVE  \A a \in Agents : MarkMove(a)
<1>1. CASE \E p \in Owners : Process(p) BY <1>1, ProcessMarks
<1>2. CASE \E a \in Agents : SessionEnds(a)
  BY <1>2, EndSessionFacts DEF SessionEnds, MarkMove, OwnerInv
<1>3. CASE \/ \E p \in Owners : Start(p) \/ Crash(p) \/ PaneDies(p)
           \/ \E a \in Agents : Begins(a)
           \/ \E s \in Ids : Foreign(s) \/ ResumedEnds(s)
           \/ UNCHANGED vars
  BY <1>3
  DEF Start, Crash, PaneDies, Begins, Foreign, ResumedEnds, vars, MarkMove
<1>4. QED BY <1>1, <1>2, <1>3 DEF Next

\* A marker passes to another process only from one whose pane is gone.
THEOREM NothingStolen == Spec => NoSteal
<1>1. OwnerInv /\ [Next]_vars =>
        [\A a \in Agents : mark[a] # None /\ mark'[a] # None
           => mark'[a].owner = mark[a].owner \/ pane[mark[a].owner] = "gone"]_vars
  BY MarkMoves DEF MarkMove
<1>2. QED BY InitOwner, NextOwner, <1>1, PTL DEF Spec, NoSteal

-----------------------------------------------------------------------------
(* What an agent is bound to *)

\* A resolved marker of the agent names the conversation, on its session or in
\* the memory of a process.
Sees(b, m) ==
    \/ m = mark[b]
    \/ \E p \in Owners : \/ m = proc[p].snap[b]
                         \/ reg[p][b] # None /\ m = reg[p][b].mark
BoundTo(b, s) ==
    \E m \in MarkerType : Sees(b, m) /\ m.phase = "resolved" /\ m.id = s

\* No other Codex agent writes the conversation or can come to write it.
Rightful(b, s) ==
    /\ s \in files
    /\ b \in Codex => \A a \in Codex \ {b} : writes[a] # s
    /\ b \notin Codex => s \notin CodexIds

\* An entry's key is its marker's conversation.
KeyOK(e) == e.key # None => e.mark.phase = "resolved" /\ e.key = e.mark.id

\* What existed before the agent's conversation did.
Older(b, pre) == pre \subseteq files /\ writes[b] \notin pre

AgentOK(b) ==
    /\ writes[b] # None => ses[b] = "agent" /\ Rightful(b, writes[b])
    /\ b \in Codex => writes[b] \in CodexIds \cup {None}
    /\ \A s \in Ids : BoundTo(b, s) =>
         /\ Rightful(b, s)
         /\ b \in Codex /\ Alive(b) => s = writes[b]
    /\ Older(b, saved[b].pre)
    /\ \A p \in Owners : reg[p][b] # None =>
         KeyOK(reg[p][b]) /\ Older(b, reg[p][b].pre)

BindInv ==
    /\ \A b \in Agents : AgentOK(b)
    /\ \A p \in Owners : proc[p].at \in Launching =>
         Older(proc[p].agent, proc[p].entry.pre)

\* A marker that binds the agent to nothing new, except to a conversation of
\* its provider, its own if /proc tells.
Harmless(b, m) ==
    m.phase = "resolved" =>
      \/ BoundTo(b, m.id)
      \/ m.id \in Listed(b) /\ (b \in Codex => m.id = writes[b])

MarksFrom == \A b \in Agents : mark'[b] # None => Harmless(b, mark'[b])
SnapsFrom == \A p \in Owners, b \in Agents :
    proc'[p].snap[b] # None => Harmless(b, proc'[p].snap[b])
EntriesFrom == \A p \in Owners : proc'[p].at \in Launching =>
    Older(proc'[p].agent, proc'[p].entry.pre)
RegsFrom == \A p \in Owners, b \in Agents : reg'[p][b] # None =>
    /\ Harmless(b, reg'[p][b].mark)
    /\ KeyOK(reg'[p][b]) /\ Older(b, reg'[p][b].pre)
SavedFrom == \A b \in Agents : Older(b, saved'[b].pre)
SessionsFrom ==
    /\ files' = files
    /\ \A b \in Agents :
         /\ \/ writes'[b] = writes[b] /\ (ses[b] = "agent" => ses'[b] = "agent")
            \/ writes'[b] = None /\ ~Alive(b)'
         /\ Alive(b)' => Alive(b) \/ Unknown(b)

LEMMA BindNow ==
    ASSUME OwnerInv, BindInv
    PROVE  /\ \A b \in Agents : mark[b] # None => Harmless(b, mark[b])
           /\ \A p \in Owners, b \in Agents :
                /\ proc[p].snap[b] # None => Harmless(b, proc[p].snap[b])
                /\ reg[p][b] # None =>
                     /\ Harmless(b, reg[p][b].mark)
                     /\ KeyOK(reg[p][b]) /\ Older(b, reg[p][b].pre)
           /\ \A b \in Agents : Older(b, {}) /\ Older(b, saved[b].pre)
<1>1. /\ \A b \in Agents : mark[b] # None => mark[b] \in MarkerType
      /\ \A p \in Owners, b \in Agents :
           /\ proc[p].snap[b] # None => proc[p].snap[b] \in MarkerType
           /\ reg[p][b] # None => reg[p][b].mark \in MarkerType
  <2>1. \A p \in Owners, b \in Agents : reg[p][b] # None => reg[p][b] \in EntryType
    BY DEF OwnerInv, TypeOK
  <2>2. \A p \in Owners : proc[p] \in ProcType BY DEF OwnerInv, TypeOK
  <2>3. \A p \in Owners : proc[p].snap \in [Agents -> MarkerType \cup {None}]
    BY <2>2, ProcFacts
  <2>4. QED BY <2>1, <2>3, EntryFacts DEF OwnerInv, TypeOK
<1>2. QED BY <1>1 DEF BindInv, AgentOK, Harmless, BoundTo, Sees, Older

LEMMA BoundKeeps ==
    ASSUME OwnerInv, BindInv, MarksFrom, SnapsFrom, RegsFrom,
           NEW b \in Agents, NEW s \in Ids, BoundTo(b, s)'
    PROVE  BoundTo(b, s) \/ (s \in Listed(b) /\ (b \in Codex => s = writes[b]))
<1>1. PICK m \in MarkerType : Sees(b, m)' /\ m.phase = "resolved" /\ m.id = s
  BY DEF BoundTo
<1>2. m # None BY MarkerFacts
<1>3. Harmless(b, m)
  BY <1>1, <1>2 DEF Sees, MarksFrom, SnapsFrom, RegsFrom
<1>4. QED BY <1>1, <1>3 DEF Harmless

LEMMA BindKeeps ==
    ASSUME OwnerInv, BindInv, OwnerInv', MarksFrom, SnapsFrom, EntriesFrom,
           RegsFrom, SavedFrom, SessionsFrom
    PROVE  BindInv'
<1>1. \A b \in Agents, s \in Ids : Rightful(b, s) => Rightful(b, s)'
  BY NoneAssumption, ProviderAssumption DEF SessionsFrom, Rightful
<1>2. \A b \in Agents : \A pre : Older(b, pre) => pre \subseteq files /\ None \notin pre
  BY NoneAssumption DEF Older, OwnerInv, TypeOK
<1>3. ASSUME NEW b \in Agents, NEW pre, Older(b, pre)
      PROVE  pre \subseteq files' /\ writes'[b] \notin pre
  BY <1>2, <1>3 DEF SessionsFrom, Older
<1>4. ASSUME NEW b \in Agents PROVE AgentOK(b)'
  <2>1. AgentOK(b) /\ writes[b] \in Ids \cup {None}
    BY DEF BindInv, OwnerInv, TypeOK
  <2>2. (writes[b] # None => ses[b] = "agent" /\ Rightful(b, writes[b]))'
    BY <1>1, <2>1 DEF AgentOK, SessionsFrom
  <2>3. (b \in Codex => writes[b] \in CodexIds \cup {None})'
    BY <2>1 DEF AgentOK, SessionsFrom
  <2>4. ASSUME NEW s \in Ids, BoundTo(b, s)'
        PROVE  Rightful(b, s)' /\ (b \in Codex /\ Alive(b) => s = writes[b])'
    <3>1. CASE BoundTo(b, s)
      <4>1. Rightful(b, s) /\ (b \in Codex /\ Alive(b) => s = writes[b])
        BY <2>1, <3>1 DEF AgentOK
      <4>2. ~Unknown(b)
        BY <3>1, MarkerFacts DEF BoundTo, Sees, Unknown
      <4>3. QED BY <1>1, <4>1, <4>2 DEF SessionsFrom
    <3>2. CASE s \in Listed(b) /\ (b \in Codex => s = writes[b])
      <4>1. Rightful(b, s)
        <5>1. CASE b \in Codex
          <6>1. s = writes[b] /\ s # None BY <3>2, <5>1, NoneAssumption
          <6>2. QED BY <2>1, <6>1 DEF AgentOK
        <5>2. CASE b \notin Codex
          BY <3>2, <5>2 DEF Listed, Rightful
        <5>3. QED BY <5>1, <5>2
      <4>2. QED BY <1>1, <3>2, <4>1 DEF SessionsFrom
    <3>3. QED BY <2>4, <3>1, <3>2, BoundKeeps
  <2>5. Older(b, saved[b].pre)' BY <1>3 DEF SavedFrom, Older
  <2>6. \A p \in Owners : (reg[p][b] # None =>
          KeyOK(reg[p][b]) /\ Older(b, reg[p][b].pre))'
    BY <1>3 DEF RegsFrom, Older, KeyOK
  <2>7. QED BY <2>2, <2>3, <2>4, <2>5, <2>6 DEF AgentOK
<1>5. ASSUME NEW p \in Owners, proc'[p].at \in Launching
      PROVE  Older(proc[p].agent, proc[p].entry.pre)'
  <2>1. proc'[p].agent \in Agents
    BY <1>5 DEF OwnerInv, ProcessOK, LaunchOK
  <2>2. QED BY <1>3, <1>5, <2>1 DEF EntriesFrom, Older
<1>6. QED BY <1>4, <1>5 DEF BindInv

\* The parts that a step leaves alone.
LEMMA Unmoved ==
    ASSUME OwnerInv, BindInv
    PROVE  /\ UNCHANGED mark => MarksFrom
           /\ UNCHANGED reg => RegsFrom
           /\ UNCHANGED saved => SavedFrom
           /\ UNCHANGED <<files, writes, ses>> => SessionsFrom
           /\ UNCHANGED proc => SnapsFrom /\ EntriesFrom
BY BindNow
DEF MarksFrom, RegsFrom, SavedFrom, SessionsFrom, SnapsFrom, EntriesFrom, BindInv,
    Alive

\* A process goes on with its listing, with a new one or with none.
LEMMA SnapsMove ==
    ASSUME OwnerInv, BindInv, NEW p \in Owners, NEW d \in ProcType,
           proc' = [proc EXCEPT ![p] = d],
           \A b \in Agents : d.snap[b] \in {None, proc[p].snap[b], mark[b]},
           d.at \in Launching =>
             \/ /\ proc[p].at \in Launching
                /\ d.agent = proc[p].agent /\ d.entry = proc[p].entry
             \/ Older(d.agent, d.entry.pre)
    PROVE  SnapsFrom /\ EntriesFrom
<1>1. proc'[p] = d /\ \A q \in Owners : q # p => proc'[q] = proc[q]
  BY Moves DEF OwnerInv
<1>2. SnapsFrom BY <1>1, BindNow DEF SnapsFrom
<1>3. EntriesFrom BY <1>1 DEF EntriesFrom, BindInv
<1>4. QED BY <1>2, <1>3

LEMMA SnapsIdle ==
    ASSUME OwnerInv, BindInv, NEW p \in Owners,
           proc' = [proc EXCEPT ![p] = Idle]
    PROVE  SnapsFrom /\ EntriesFrom
BY IdleFacts, SnapsMove DEF Launching

LEMMA SnapsPassed ==
    ASSUME OwnerInv, BindInv, NEW p \in Owners, NEW a \in Agents,
           NEW sure \in BOOLEAN,
           proc' = [proc EXCEPT ![p] = Passed(p, a, sure)]
    PROVE  SnapsFrom /\ EntriesFrom
<1> DEFINE d == Passed(p, a, sure)
<1>1. d \in ProcType /\ d.at = "examine" /\ d.snap = proc[p].snap
  BY PassedFacts DEF OwnerInv
<1>2. proc' = [proc EXCEPT ![p] = d] OBVIOUS
<1> HIDE DEF d
<1>3. QED BY <1>1, <1>2, SnapsMove DEF Launching

LEMMA SessionEndFrom ==
    ASSUME OwnerInv, BindInv, NEW a \in Agents, EndSession(a)
    PROVE  MarksFrom /\ SessionsFrom
<1>1. /\ ses'[a] = "gone" /\ mark'[a] = None /\ writes'[a] = None
      /\ \A b \in Agents : b # a => /\ mark'[b] = mark[b]
                                    /\ ses'[b] = ses[b]
                                    /\ writes'[b] = writes[b]
      /\ files' = files
  BY EndSessionFacts DEF OwnerInv
<1>2. MarksFrom BY <1>1, BindNow DEF MarksFrom
<1>3. SessionsFrom BY <1>1 DEF SessionsFrom, Alive
<1>4. QED BY <1>2, <1>3

\* Entries go, and no other comes.
LEMMA RegsShrink ==
    ASSUME OwnerInv, BindInv,
           \A p \in Owners, b \in Agents :
             reg'[p][b] = reg[p][b] \/ reg'[p][b] = None
    PROVE  RegsFrom
BY BindNow DEF RegsFrom

LEMMA MarkWritten ==
    ASSUME OwnerInv, BindInv, NEW a \in Agents, NEW m \in MarkerType,
           NEW ok \in BOOLEAN, Write(a, m, ok), Harmless(a, m)
    PROVE  MarksFrom
BY WriteFacts, BindNow DEF MarksFrom, OwnerInv

-----------------------------------------------------------------------------
(* The actions, and what they bind *)

LEMMA LaunchBind ==
    ASSUME OwnerInv, BindInv, NEW p \in Owners, NEW a \in Agents, Launch(p, a)
    PROVE  SnapsFrom /\ EntriesFrom
<1>1. PICK known \in SUBSET Listed(a) :
        proc' = [proc EXCEPT ![p] =
              [Idle EXCEPT
                 !.at = "hold", !.agent = a,
                 !.entry = [mark |-> [owner |-> p, phase |-> "launching",
                                      id |-> None],
                            key |-> None, guess |-> a \notin Codex,
                            pre |-> known]]]
  BY DEF Launch
<1> DEFINE m == [owner |-> p, phase |-> "launching", id |-> None]
           e == [mark |-> m, key |-> None, guess |-> a \notin Codex, pre |-> known]
           d == [Idle EXCEPT !.at = "hold", !.agent = a, !.entry = e]
<1>2. m \in MarkerType BY DEF MarkerType
<1>3. known \in SUBSET Ids /\ known \subseteq files
  BY ListedFacts DEF OwnerInv
<1>4. e \in EntryType /\ e.pre = known BY <1>2, <1>3 DEF EntryType
<1>5. proc' = [proc EXCEPT ![p] = d] BY <1>1
<1> HIDE DEF e
<1>6. /\ d \in ProcType /\ d.agent = a /\ d.entry = e
      /\ d.snap = [b \in Agents |-> None]
  BY <1>4, IdleFacts DEF ProcType, Labels
<1>7. writes[a] = None
  BY DEF Launch, BindInv, AgentOK
<1>8. Older(a, known) BY <1>3, <1>7, NoneAssumption DEF Older
<1> HIDE DEF d
<1>9. QED BY <1>4, <1>5, <1>6, <1>8, SnapsMove

\* The locals of a launch that goes on.
LEMMA LaunchGoesOn ==
    ASSUME OwnerInv, BindInv, NEW p \in Owners, proc[p].at \in Launching,
           NEW l \in {"mark", "start", "register"},
           proc' = [proc EXCEPT ![p].at = l]
    PROVE  SnapsFrom /\ EntriesFrom
<1> DEFINE d == [proc[p] EXCEPT !.at = l]
<1>1. proc[p] \in ProcType BY DEF OwnerInv, TypeOK
<1>2. /\ d \in ProcType /\ d.agent = proc[p].agent /\ d.entry = proc[p].entry
      /\ d.snap = proc[p].snap
  BY <1>1 DEF ProcType, Labels
<1>3. proc' = [proc EXCEPT ![p] = d] OBVIOUS
<1> HIDE DEF d
<1>4. QED BY <1>2, <1>3, SnapsMove

LEMMA HoldBind ==
    ASSUME OwnerInv, BindInv, OwnerInv', NEW p \in Owners, Hold(p)
    PROVE  BindInv'
<1>1. SnapsFrom /\ EntriesFrom
  BY SnapsIdle, LaunchGoesOn DEF Hold, Launching
<1>2. SessionsFrom
  <2>1. CASE ses' = [ses EXCEPT ![proc[p].agent] = "holder"]
    <3>1. PICK a \in Agents : a = proc[p].agent /\ ses[a] = "none"
      BY RunsFacts DEF Hold, ProcessOK, LaunchOK, Launching
    <3>2. Unknown(a) /\ writes[a] = None
      BY <3>1 DEF OwnerInv, MarkOK, BindInv, AgentOK
    <3>3. \A b \in Agents : b # a => ses'[b] = ses[b]
      BY <2>1, <3>1 DEF OwnerInv, TypeOK
    <3>4. files' = files /\ writes' = writes BY DEF Hold, world
    <3>5. QED BY <3>1, <3>2, <3>3, <3>4 DEF SessionsFrom, Alive
  <2>2. CASE UNCHANGED ses BY <2>2, Unmoved DEF Hold, world
  <2>3. QED BY <2>1, <2>2 DEF Hold
<1>3. MarksFrom /\ RegsFrom /\ SavedFrom BY Unmoved DEF Hold
<1>4. QED BY <1>1, <1>2, <1>3, BindKeeps

LEMMA MarkHolderBind ==
    ASSUME OwnerInv, BindInv, OwnerInv', NEW p \in Owners, MarkHolder(p)
    PROVE  BindInv'
<1>1. PICK a \in Agents :
        /\ a = proc[p].agent /\ proc[p].entry.mark \in MarkerType
        /\ proc[p].entry.mark.phase = "launching"
  BY RunsFacts, EntryFacts DEF MarkHolder, ProcessOK, LaunchOK, Launching
<1>2. Harmless(a, proc[p].entry.mark) BY <1>1 DEF Harmless
<1>3. SnapsFrom /\ EntriesFrom
  BY SnapsIdle, LaunchGoesOn DEF MarkHolder, Launching
<1>4. RegsFrom /\ SavedFrom BY Unmoved DEF MarkHolder
<1>5. MarksFrom /\ SessionsFrom
  <2>1. CASE EndSession(a) BY <2>1, SessionEndFrom
  <2>2. CASE /\ \E ok \in BOOLEAN : Write(a, proc[p].entry.mark, ok)
             /\ UNCHANGED <<world, ses>>
    BY <1>1, <1>2, <2>2, MarkWritten, Unmoved DEF world
  <2>3. CASE UNCHANGED <<world, ses, mark>>
    BY <2>3, Unmoved DEF world
  <2>4. QED BY <1>1, <2>1, <2>2, <2>3 DEF MarkHolder
<1>6. QED BY <1>3, <1>4, <1>5, BindKeeps

LEMMA StartAgentBind ==
    ASSUME OwnerInv, BindInv, OwnerInv', NEW p \in Owners, StartAgent(p)
    PROVE  BindInv'
<1>1. PICK a \in Agents : a = proc[p].agent
  BY RunsFacts DEF StartAgent, ProcessOK, LaunchOK, Launching
<1>2. SnapsFrom /\ EntriesFrom
  BY SnapsIdle, LaunchGoesOn DEF StartAgent, Launching
<1>3. RegsFrom /\ SavedFrom BY Unmoved DEF StartAgent
<1>4. MarksFrom /\ SessionsFrom
  <2>1. CASE EndSession(a) BY <2>1, SessionEndFrom
  <2>2. CASE UNCHANGED <<world, ses, mark>>
    BY <2>2, Unmoved DEF world
  <2>3. CASE /\ Alive(a) /\ ses' = [ses EXCEPT ![a] = "agent"]
             /\ UNCHANGED <<world, mark>>
    <3>1. MarksFrom /\ files' = files /\ writes' = writes
      BY <2>3, Unmoved DEF world
    <3>2. \A b \in Agents : ses'[b] = ses[b] \/ (b = a /\ ses'[b] = "agent")
      BY <2>3 DEF OwnerInv, TypeOK
    <3>3. QED BY <2>3, <3>1, <3>2 DEF SessionsFrom, Alive
  <2>4. QED BY <1>1, <2>1, <2>2, <2>3 DEF StartAgent
<1>5. QED BY <1>2, <1>3, <1>4, BindKeeps

LEMMA RegisterBind ==
    ASSUME OwnerInv, BindInv, OwnerInv', NEW p \in Owners, Register(p)
    PROVE  BindInv'
<1> DEFINE e == proc[p].entry
           m == [e.mark EXCEPT !.phase = "unresolved"]
           f == [e EXCEPT !.mark = m]
<1>1. PICK a \in Agents :
        /\ a = proc[p].agent /\ e \in EntryType /\ e.mark \in MarkerType
        /\ e.mark.phase = "launching" /\ e.key = None
  BY RunsFacts, EntryFacts DEF Register, ProcessOK, LaunchOK, Launching
<1>2. m \in MarkerType /\ m.phase = "unresolved" BY <1>1 DEF MarkerType
<1>3. f \in EntryType /\ f.mark = m /\ f.key = None /\ f.pre = e.pre
  BY <1>1, <1>2 DEF EntryType
<1>4. Harmless(a, m) /\ Harmless(a, e.mark) BY <1>1, <1>2 DEF Harmless
<1>5. Older(a, e.pre)
  BY <1>1 DEF BindInv, Register, Launching
<1>6. SnapsFrom /\ EntriesFrom BY SnapsIdle DEF Register
<1>7. SessionsFrom /\ SavedFrom BY Unmoved DEF Register, world
<1>8. MarksFrom
  <2>1. (\E ok \in BOOLEAN : Write(a, m, ok)) \/ UNCHANGED mark
    BY <1>1 DEF Register
  <2>2. QED BY <1>2, <1>4, <2>1, MarkWritten, Unmoved
<1>9. reg' = [reg EXCEPT ![p][a] = f] \/ reg' = [reg EXCEPT ![p][a] = e]
  BY <1>1 DEF Register
<1> HIDE DEF m, f, e
<1>10. PICK g \in {e, f} : reg' = [reg EXCEPT ![p][a] = g]
  BY <1>9
<1>11. g \in EntryType \cup {None} BY <1>1, <1>3
<1>12. /\ reg'[p][a] = g
       /\ \A q \in Owners, b \in Agents :
            q # p \/ b # a => reg'[q][b] = reg[q][b]
  <2>1. Put(p, a, g) BY <1>10 DEF Put
  <2>2. Changed(p, a, g) BY <1>11, TypesHold, <2>1, RegFacts
  <2>3. QED BY <2>2 DEF Changed
<1>13. Harmless(a, g.mark) /\ KeyOK(g) /\ Older(a, g.pre)
  BY <1>1, <1>3, <1>4, <1>5 DEF KeyOK
<1>14. RegsFrom BY <1>12, <1>13, BindNow DEF RegsFrom
<1>15. QED BY <1>6, <1>7, <1>8, <1>14, BindKeeps

LEMMA AdoptBind ==
    ASSUME OwnerInv, BindInv, NEW p \in Owners, NEW a \in Agents,
           NEW m \in MarkerType, Adopt(p, a, m), Harmless(a, m)
    PROVE  RegsFrom
<1>1. PICK e \in EntryType :
        /\ e.mark = m
        /\ \/ e.key = None /\ (e.pre = {} \/ e.pre = saved[a].pre)
           \/ e.key = m.id /\ e.key \in files /\ e.pre = {}
        /\ reg' = reg \/ reg' = [reg EXCEPT ![p][a] = e]
  BY AdoptFacts DEF OwnerInv
<1>2. KeyOK(e)
  BY <1>1, MarkerFacts DEF KeyOK
<1>3. Older(a, e.pre) BY <1>1, BindNow
<1>4. CASE reg' = reg BY <1>4, Unmoved
<1>5. CASE reg' = [reg EXCEPT ![p][a] = e]
  <2>1. e \in EntryType \/ e = None OBVIOUS
  <2>2. /\ reg'[p][a] = e
        /\ \A q \in Owners, b \in Agents :
             q # p \/ b # a => reg'[q][b] = reg[q][b]
    <3>1. Put(p, a, e) BY <1>5 DEF Put
    <3>2. Changed(p, a, e) BY <2>1, TypesHold, <3>1, RegFacts
    <3>3. QED BY <3>2 DEF Changed
  <2>3. QED BY <1>1, <1>2, <1>3, <2>2, BindNow DEF RegsFrom
<1>6. QED BY <1>1, <1>4, <1>5

LEMMA ListSessionsBind ==
    ASSUME OwnerInv, BindInv, NEW p \in Owners, NEW s \in Ids \cup {None},
           ListSessions(p, s)
    PROVE  SnapsFrom /\ EntriesFrom
<1> DEFINE d == [Idle EXCEPT !.at = "examine", !.goal = s]
           t == {a \in Agents : mark[a] # None /\ reg[p][a] = None}
           f == [d EXCEPT !.snap = mark, !.sure = TRUE, !.todo = t]
<1>1. /\ d \in ProcType /\ d.at = "examine"
      /\ d.snap = [a \in Agents |-> None]
  BY IdleFacts DEF ProcType, Labels
<1>2. mark \in [Agents -> MarkerType \cup {None}] /\ t \in SUBSET Agents
  BY DEF OwnerInv, TypeOK
<1>3. proc' = [proc EXCEPT ![p] = d] \/ proc' = [proc EXCEPT ![p] = f]
  BY DEF ListSessions
<1> HIDE DEF d
<1>4. f \in ProcType /\ f.at = "examine" /\ f.snap = mark
  <2> HIDE DEF t
  <2>1. QED BY <1>1, <1>2 DEF ProcType
<1> HIDE DEF f
<1>5. CASE proc' = [proc EXCEPT ![p] = d]
  BY <1>1, <1>5, SnapsMove DEF Launching
<1>6. CASE proc' = [proc EXCEPT ![p] = f]
  BY <1>4, <1>6, SnapsMove DEF Launching
<1>7. QED BY <1>3, <1>5, <1>6

LEMMA ExamineBind ==
    ASSUME OwnerInv, BindInv, OwnerInv', NEW p \in Owners, NEW a \in Agents,
           Examine(p, a)
    PROVE  BindInv'
<1>1. /\ proc[p].at = "examine" /\ a \in proc[p].todo
      /\ proc[p].snap[a] \in MarkerType
  <2>1. proc[p] \in ProcType /\ ProcessOK(p) /\ proc[p].at = "examine"
        /\ a \in proc[p].todo
    BY RunsFacts DEF Examine
  <2>2. QED BY <2>1, ProcFacts DEF ProcessOK, ListingOK, Discovering
<1>2. MarksFrom /\ SessionsFrom /\ SavedFrom
  BY Unmoved DEF Examine, world
<1>3. CASE Alive(a) /\ ExamineOwn(p, a)
  <2>1. RegsFrom
    BY <1>1, <1>3, AdoptBind, BindNow, MarkerFacts DEF ExamineOwn
  <2>2. SnapsFrom /\ EntriesFrom
    BY <1>3, OrphanFacts, SnapsPassed DEF ExamineOwn, OwnerInv
  <2>3. QED BY <1>2, <2>1, <2>2, BindKeeps
<1>4. CASE Alive(a) /\ ExamineForeign(p, a)
  <2>1. PICK d \in ProcType : ForeignStep(p, a, d)
    BY <1>1, <1>4, ForeignFacts
  <2>2. SnapsFrom /\ EntriesFrom
    BY <2>1, SnapsMove DEF ForeignStep, Launching
  <2>3. RegsFrom BY <1>4, Unmoved DEF ExamineForeign
  <2>4. QED BY <1>2, <2>2, <2>3, BindKeeps
<1>5. CASE ExamineGone(p, a)
  <2>1. SnapsFrom /\ EntriesFrom
    BY <1>5, OrphanFacts, SnapsPassed DEF ExamineGone, OwnerInv
  <2>2. RegsFrom BY <1>5, Unmoved DEF ExamineGone
  <2>3. QED BY <1>2, <2>1, <2>2, BindKeeps
<1>6. QED BY <1>3, <1>4, <1>5 DEF Examine

LEMMA CompareBind ==
    ASSUME OwnerInv, BindInv, OwnerInv', NEW p \in Owners, Compare(p)
    PROVE  BindInv'
<1>1. PICK a \in Agents : a = proc[p].agent
  BY ClaimFacts DEF Compare, Claiming
<1>2. MarksFrom /\ SessionsFrom /\ SavedFrom /\ RegsFrom
  BY Unmoved DEF Compare, world
<1>3. CASE proc' = [proc EXCEPT ![p].at = "store"]
  <2> DEFINE d == [proc[p] EXCEPT !.at = "store"]
  <2>1. proc[p] \in ProcType BY DEF OwnerInv, TypeOK
  <2>2. d \in ProcType /\ d.at = "store" /\ d.snap = proc[p].snap
    BY <2>1 DEF ProcType, Labels
  <2>3. proc' = [proc EXCEPT ![p] = d] BY <1>3
  <2> HIDE DEF d
  <2>4. SnapsFrom /\ EntriesFrom BY <2>2, <2>3, SnapsMove DEF Launching
  <2>5. QED BY <1>2, <2>4, BindKeeps
<1>4. CASE SkipOrphan(p, a)
  <2>1. SnapsFrom /\ EntriesFrom
    BY <1>4, OrphanFacts, SnapsPassed DEF OwnerInv
  <2>2. QED BY <1>2, <2>1, BindKeeps
<1>5. QED BY <1>1, <1>3, <1>4 DEF Compare

LEMMA StoreBind ==
    ASSUME OwnerInv, BindInv, OwnerInv', NEW p \in Owners, Store(p)
    PROVE  BindInv'
<1>1. PICK a \in Agents : a = proc[p].agent /\ proc[p].snap[a] \in MarkerType
  BY ClaimFacts DEF Store, Claiming
<1> DEFINE n == proc[p].snap[a]
           m == Owned(n, p)
<1>2. m \in MarkerType /\ m.phase = n.phase /\ m.id = n.id
  BY <1>1, MarkerFacts
<1>3. Harmless(a, m)
  <2>1. Harmless(a, n) BY <1>1, BindNow, MarkerFacts
  <2>2. QED BY <1>2, <2>1 DEF Harmless
<1>4. \/ /\ Write(a, m, TRUE) /\ Adopt(p, a, m) /\ NextOrphan(p, a)
      \/ /\ Write(a, m, FALSE) /\ UNCHANGED reg /\ SkipOrphan(p, a)
      \/ /\ UNCHANGED <<mark, reg>> /\ NextOrphan(p, a)
  BY <1>1 DEF Store
<1> HIDE DEF m
<1>5. MarksFrom
  BY <1>2, <1>3, <1>4, MarkWritten, Unmoved
<1>6. RegsFrom BY <1>2, <1>3, <1>4, AdoptBind, Unmoved
<1>7. SnapsFrom /\ EntriesFrom
  BY <1>4, OrphanFacts, SnapsPassed DEF OwnerInv
<1>8. SessionsFrom /\ SavedFrom BY Unmoved DEF Store, world
<1>9. QED BY <1>5, <1>6, <1>7, <1>8, BindKeeps

LEMMA EndDiscoveryBind ==
    ASSUME OwnerInv, BindInv, OwnerInv', NEW p \in Owners, EndDiscovery(p)
    PROVE  BindInv'
<1> DEFINE t == Placeholders(p)
           d == [Idle EXCEPT !.at = "resolve", !.goal = proc[p].goal,
                             !.sure = proc[p].sure, !.todo = t]
<1>1. proc' = [proc EXCEPT ![p] = Idle] \/ proc' = [proc EXCEPT ![p] = d]
  BY DEF EndDiscovery
<1>2. proc[p] \in ProcType /\ t \in SUBSET Agents
  BY DEF OwnerInv, TypeOK, Placeholders
<1> HIDE DEF t
<1>3. /\ d \in ProcType /\ d.at = "resolve"
      /\ d.snap = [a \in Agents |-> None]
  BY <1>2, IdleFacts, ProcFacts DEF ProcType, Labels
<1> HIDE DEF d
<1>4. SnapsFrom /\ EntriesFrom
  BY <1>1, <1>3, SnapsMove, SnapsIdle DEF Launching
<1>5. MarksFrom /\ SessionsFrom /\ SavedFrom /\ RegsFrom
  BY Unmoved DEF EndDiscovery, world
<1>6. QED BY <1>4, <1>5, BindKeeps

LEMMA PruneBind ==
    ASSUME OwnerInv, BindInv, OwnerInv', NEW p \in Owners, Prune(p)
    PROVE  BindInv'
<1> DEFINE t == {a \in Placeholders(p) : Alive(a)}
           d == [proc[p] EXCEPT !.at = "resolve", !.todo = t]
<1>1. proc' = proc \/ proc' = [proc EXCEPT ![p] = d] BY DEF Prune
<1>2. proc[p] \in ProcType /\ t \in SUBSET Agents
  BY DEF OwnerInv, TypeOK, Placeholders
<1> HIDE DEF t
<1>3. d \in ProcType /\ d.at = "resolve" /\ d.snap = proc[p].snap
  BY <1>2 DEF ProcType, Labels
<1> HIDE DEF d
<1>4. SnapsFrom /\ EntriesFrom
  BY <1>1, <1>3, SnapsMove, Unmoved DEF Launching
<1>5. MarksFrom /\ SessionsFrom /\ SavedFrom BY Unmoved DEF Prune, world
<1>6. RegsFrom
  <2>1. \A q \in Owners, b \in Agents :
          reg'[q][b] = reg[q][b] \/ reg'[q][b] = None
    BY DEF Prune, OwnerInv, TypeOK
  <2>2. QED BY <2>1, RegsShrink
<1>7. QED BY <1>4, <1>5, <1>6, BindKeeps

LEMMA ResolveBind ==
    ASSUME OwnerInv, BindInv, OwnerInv', NEW p \in Owners, NEW a \in Agents,
           Resolve(p, a)
    PROVE  BindInv'
<1>1. PICK d \in ProcType : Placed(p, a, d)
  BY PlacedFacts DEF Resolve
<1>2. SnapsFrom /\ EntriesFrom
  BY <1>1, SnapsMove DEF Placed, Launching
<1>3. SessionsFrom /\ SavedFrom BY Unmoved DEF Resolve, world
<1>4. CASE reg' = reg /\ mark' = mark
  BY <1>2, <1>3, <1>4, Unmoved, BindKeeps
<1>5. CASE \E s \in Ids : Chosen(p, a, s)
  <2>1. PICK s \in Ids : Chosen(p, a, s) BY <1>5
  <2> DEFINE m == Resolved(reg[p][a].mark, s)
  <2>2. /\ m.phase = "resolved" /\ m.id = s
        /\ \A b \in Agents : b # a => mark'[b] = mark[b]
        /\ mark'[a] = m \/ mark'[a] = mark[a]
        /\ \A q \in Owners : q # p => reg'[q] = reg[q]
        /\ \A b \in Agents : b # a => reg'[p][b] = reg[p][b]
        /\ \/ reg'[p][a] = reg[p][a]
           \/ /\ reg'[p][a].mark = m
              /\ reg'[p][a].key = s /\ reg'[p][a].pre = reg[p][a].pre
    BY <2>1, ChosenFacts
  <2> HIDE DEF m
  <2>3. reg[p][a] # None /\ s \in Choice(p, a) BY <2>1 DEF Chosen
  <2>4. /\ s \in Listed(a)
        /\ reg[p][a].mark.phase = "resolved" => s = reg[p][a].mark.id
        /\ a \in Codex /\ reg[p][a].mark.phase # "resolved" => s = writes[a]
    BY <2>3, ChoiceFacts DEF OwnerInv
  <2>5. Harmless(a, m)
    <3>1. reg[p][a].mark \in MarkerType
      BY <2>3, EntryFacts DEF OwnerInv, TypeOK
    <3>2. reg[p][a].mark.phase = "resolved" => BoundTo(a, s)
      BY <2>3, <2>4, <3>1 DEF BoundTo, Sees
    <3>3. QED BY <2>2, <2>4, <3>2 DEF Harmless
  <2>6. MarksFrom BY <2>2, <2>5, BindNow DEF MarksFrom
  <2>7. RegsFrom
    <3>1. (reg'[p][a] # None =>
            /\ Harmless(a, reg'[p][a].mark)
            /\ KeyOK(reg'[p][a]) /\ Older(a, reg'[p][a].pre))
      BY <2>2, <2>3, <2>5, BindNow DEF KeyOK
    <3>2. \A q \in Owners, b \in Agents :
            q # p \/ b # a => reg'[q][b] = reg[q][b]
      BY <2>2
    <3>3. QED BY <3>1, <3>2, BindNow DEF RegsFrom
  <2>8. QED BY <1>2, <1>3, <2>6, <2>7, BindKeeps
<1>6. QED BY <1>4, <1>5, ResolveEffect

LEMMA SaveStateBind ==
    ASSUME OwnerInv, BindInv, OwnerInv', NEW p \in Owners, SaveState(p)
    PROVE  BindInv'
<1>1. \A b \in Agents : saved'[b].pre = saved[b].pre
                        \/ (reg[p][b] # None /\ saved'[b].pre = reg[p][b].pre)
  BY DEF SaveState, Placeholders, Context
<1>2. SavedFrom BY <1>1, BindNow DEF SavedFrom
<1>3. MarksFrom /\ SessionsFrom /\ RegsFrom /\ SnapsFrom /\ EntriesFrom
  BY Unmoved DEF SaveState, world
<1>4. QED BY <1>2, <1>3, BindKeeps

LEMMA DecideBind ==
    ASSUME OwnerInv, BindInv, OwnerInv', NEW p \in Owners, Decide(p)
    PROVE  BindInv'
<1>1. SnapsFrom /\ EntriesFrom BY SnapsIdle DEF Decide
<1>2. MarksFrom /\ SessionsFrom /\ SavedFrom BY Unmoved DEF Decide, world
<1>3. RegsFrom
  <2>1. \A q \in Owners, b \in Agents :
          reg'[q][b] = reg[q][b] \/ reg'[q][b] = None
    BY DEF Decide, OwnerInv, TypeOK
  <2>2. QED BY <2>1, RegsShrink
<1>4. QED BY <1>1, <1>2, <1>3, BindKeeps

LEMMA KillBind ==
    ASSUME OwnerInv, BindInv, OwnerInv', NEW p \in Owners, NEW a \in Agents,
           Kill(p, a)
    PROVE  BindInv'
<1>1. MarksFrom /\ SessionsFrom BY SessionEndFrom DEF Kill
<1>2. SnapsFrom /\ EntriesFrom /\ SavedFrom BY Unmoved DEF Kill
<1>3. RegsFrom
  <2>1. \A q \in Owners, b \in Agents :
          reg'[q][b] = reg[q][b] \/ reg'[q][b] = None
    <3>1. Put(p, a, None) BY KillRow
    <3>2. Changed(p, a, None) BY TypesHold, <3>1, RegFacts
    <3>3. QED BY <3>2 DEF Changed
  <2>2. QED BY <2>1, RegsShrink
<1>4. QED BY <1>1, <1>2, <1>3, BindKeeps

LEMMA OutsideBind ==
    ASSUME OwnerInv, BindInv, OwnerInv',
           \/ \E p \in Owners : Crash(p) \/ PaneDies(p) \/ Start(p)
           \/ \E p \in Owners, s \in Ids : Resume(p, s)
           \/ \E a \in Agents : SessionEnds(a)
           \/ \E s \in Ids : ResumedEnds(s)
           \/ UNCHANGED vars
    PROVE  BindInv'
<1>1. ASSUME NEW p \in Owners, Crash(p) \/ PaneDies(p)
      PROVE  BindInv'
  <2>1. \A q \in Owners : /\ q # p => /\ proc'[q].snap = proc[q].snap
                                      /\ proc'[q].at = proc[q].at
                                      /\ proc'[q].agent = proc[q].agent
                                      /\ proc'[q].entry = proc[q].entry
                          /\ q = p => proc'[q] = Down
    BY <1>1 DEF Crash, PaneDies, OwnerInv, TypeOK, ProcType
  <2>2. SnapsFrom /\ EntriesFrom
    BY <2>1, BindNow, IdleFacts DEF SnapsFrom, EntriesFrom, BindInv, Launching
  <2>3. RegsFrom
    <3>1. \A q \in Owners, b \in Agents :
            reg'[q][b] = reg[q][b] \/ reg'[q][b] = None
      BY <1>1 DEF Crash, PaneDies, Ends, OwnerInv, TypeOK
    <3>2. QED BY <3>1, RegsShrink
  <2>4. MarksFrom /\ SessionsFrom /\ SavedFrom
    BY <1>1, Unmoved DEF Crash, PaneDies, world
  <2>5. QED BY <2>2, <2>3, <2>4, BindKeeps
<1>2. ASSUME NEW p \in Owners, Start(p) \/ \E s \in Ids : Resume(p, s)
      PROVE  BindInv'
  <2>1. SnapsFrom /\ EntriesFrom
    BY <1>2, ListSessionsBind DEF Start, Resume
  <2>2. MarksFrom /\ SessionsFrom /\ SavedFrom /\ RegsFrom
    BY <1>2, Unmoved DEF Start, Resume, world
  <2>3. QED BY <2>1, <2>2, BindKeeps
<1>3. ASSUME NEW a \in Agents, SessionEnds(a) PROVE BindInv'
  <2>1. MarksFrom /\ SessionsFrom
    BY <1>3, SessionEndFrom DEF SessionEnds
  <2>2. SnapsFrom /\ EntriesFrom /\ RegsFrom /\ SavedFrom
    BY <1>3, Unmoved DEF SessionEnds
  <2>3. QED BY <2>1, <2>2, BindKeeps
<1>4. CASE \E s \in Ids : ResumedEnds(s)
  BY <1>4, Unmoved, BindKeeps DEF ResumedEnds, world
<1>5. CASE UNCHANGED vars BY <1>5, Unmoved, BindKeeps DEF vars
<1>6. QED BY <1>1, <1>2, <1>3, <1>4, <1>5

\* A conversation that begins: nobody was bound to it before.
LEMMA FilesGrow ==
    ASSUME OwnerInv, BindInv, NEW s \in Ids, s \notin files,
           files' = files \cup {s},
           UNCHANGED <<ses, mark, saved, proc, reg>>,
           \/ writes' = writes
           \/ \E a \in Agents : /\ ses[a] = "agent" /\ writes[a] = None
                                /\ (a \in Codex) = (s \in CodexIds)
                                /\ writes' = [writes EXCEPT ![a] = s]
    PROVE  BindInv'
<1>1. \A b \in Agents :
        \/ writes'[b] = writes[b]
        \/ /\ writes[b] = None /\ writes'[b] = s /\ ses[b] = "agent"
           /\ (b \in Codex) = (s \in CodexIds)
           /\ \A a \in Agents : a # b => writes'[a] = writes[a]
  BY DEF OwnerInv, TypeOK
<1>2. s # None /\ Codex \subseteq Agents
  BY NoneAssumption, ProviderAssumption
<1>3. \A b \in Agents : writes[b] # s
  BY <1>2 DEF BindInv, AgentOK, Rightful
<1>4. ASSUME NEW b \in Agents, NEW u \in Ids, Rightful(b, u)
      PROVE  Rightful(b, u)'
  BY <1>1, <1>2, <1>4 DEF Rightful
<1>5. ASSUME NEW b \in Agents, NEW pre, Older(b, pre)
      PROVE  pre \subseteq files' /\ writes'[b] \notin pre
  BY <1>1, <1>5 DEF Older
<1>6. ASSUME NEW b \in Agents PROVE AgentOK(b)'
  <2>1. AgentOK(b) /\ writes[b] \in Ids \cup {None}
    BY DEF BindInv, OwnerInv, TypeOK
  <2>2. (writes[b] # None => ses[b] = "agent" /\ Rightful(b, writes[b]))'
    <3>1. CASE writes'[b] = writes[b]
      BY <1>4, <2>1, <3>1 DEF AgentOK
    <3>2. CASE writes'[b] # writes[b]
      BY <1>1, <1>2, <1>3, <3>2 DEF Rightful
    <3>3. QED BY <3>1, <3>2
  <2>3. (b \in Codex => writes[b] \in CodexIds \cup {None})'
    BY <1>1, <2>1 DEF AgentOK
  <2>4. ASSUME NEW u \in Ids, BoundTo(b, u)'
        PROVE  Rightful(b, u)' /\ (b \in Codex /\ Alive(b) => u = writes[b])'
    <3>1. BoundTo(b, u) BY <2>4 DEF BoundTo, Sees
    <3>2. Rightful(b, u) /\ (b \in Codex /\ Alive(b) => u = writes[b])
      BY <2>1, <3>1 DEF AgentOK
    <3>3. Rightful(b, u)' BY <1>4, <3>2
    <3>4. b \in Codex /\ Alive(b) => u = writes'[b]
      BY <1>1, <3>2, NoneAssumption
    <3>5. QED BY <3>3, <3>4 DEF Alive
  <2>5. Older(b, saved[b].pre)' BY <1>5, <2>1 DEF AgentOK, Older
  <2>6. \A p \in Owners : (reg[p][b] # None =>
          KeyOK(reg[p][b]) /\ Older(b, reg[p][b].pre))'
    BY <1>5, <2>1 DEF AgentOK, Older, KeyOK
  <2>7. QED BY <2>2, <2>3, <2>4, <2>5, <2>6 DEF AgentOK
<1>7. ASSUME NEW p \in Owners, proc'[p].at \in Launching
      PROVE  Older(proc[p].agent, proc[p].entry.pre)'
  <2>1. proc[p].agent \in Agents
    BY <1>7 DEF OwnerInv, ProcessOK, LaunchOK
  <2>2. QED BY <1>5, <1>7, <2>1 DEF BindInv, Older
<1>8. QED BY <1>6, <1>7 DEF BindInv

LEMMA LaunchBinds ==
    ASSUME OwnerInv, BindInv, OwnerInv', NEW p \in Owners, NEW a \in Agents,
           Launch(p, a)
    PROVE  BindInv'
<1>1. SnapsFrom /\ EntriesFrom BY LaunchBind
<1>2. MarksFrom /\ SessionsFrom /\ SavedFrom /\ RegsFrom
  BY Unmoved DEF Launch
<1>3. QED BY <1>1, <1>2, BindKeeps

LEMMA InitBind == Init => BindInv
<1> SUFFICES ASSUME Init PROVE BindInv
  OBVIOUS
<1>1. \A p \in Owners : proc[p].at \notin Launching
  BY IdleFacts DEF Init, Launching
<1>2. \A b \in Agents, s \in Ids : ~BoundTo(b, s)
  BY IdleFacts, MarkerFacts DEF Init, BoundTo, Sees
<1>3. \A b \in Agents : AgentOK(b)
  BY <1>2, NoneAssumption DEF Init, AgentOK, Older, Lost
<1>4. QED BY <1>1, <1>3 DEF BindInv

LEMMA NextBind == OwnerInv /\ BindInv /\ [Next]_vars => BindInv'
<1> SUFFICES ASSUME OwnerInv, BindInv, [Next]_vars PROVE BindInv'
  OBVIOUS
<1>1. OwnerInv' BY NextOwner
<1>2. ASSUME NEW p \in Owners, Process(p) PROVE BindInv'
  BY <1>1, <1>2, HoldBind, MarkHolderBind, StartAgentBind, RegisterBind,
     CompareBind, StoreBind, EndDiscoveryBind, PruneBind, SaveStateBind,
     DecideBind, LaunchBinds, ExamineBind, ResolveBind, KillBind,
     OutsideBind
  DEF Process
<1>3. ASSUME NEW a \in Agents, Begins(a) PROVE BindInv'
  BY <1>3, FilesGrow DEF Begins
<1>4. ASSUME NEW s \in Ids, Foreign(s) PROVE BindInv'
  BY <1>4, FilesGrow DEF Foreign
<1>5. QED
  BY <1>1, <1>2, <1>3, <1>4, OutsideBind DEF Next

LEMMA BindAlways == Spec => [](OwnerInv /\ BindInv)
BY InitOwner, NextOwner, InitBind, NextBind, PTL DEF Spec

-----------------------------------------------------------------------------
(* Theorems: bindings *)

LEMMA BoundNow == OwnerInv /\ BindInv => ExactBinding
<1> SUFFICES ASSUME OwnerInv, BindInv, NEW a \in Codex,
                    mark[a] # None, mark[a].phase = "resolved"
             PROVE  mark[a].id = writes[a]
  BY DEF ExactBinding
<1>1. a \in Agents BY ProviderAssumption
<1>2. mark[a] \in MarkerType /\ Alive(a)
  BY <1>1 DEF OwnerInv, TypeOK, MarkOK
<1>3. mark[a].id \in Ids BY <1>2, MarkerFacts
<1>4. BoundTo(a, mark[a].id) BY <1>2 DEF BoundTo, Sees
<1>5. QED BY <1>1, <1>2, <1>3, <1>4 DEF BindInv, AgentOK

\* Where /proc tells which conversation an agent has open, a marker that is
\* resolved names that conversation: whatever crashed, was adopted or was lost on
\* the way from the first to the last writer of the marker.
THEOREM BoundExactly == Spec => []ExactBinding
BY BindAlways, BoundNow, PTL

LEMMA RankFacts ==
    /\ Rank["launching"] = 0 /\ Rank["unresolved"] = 1 /\ Rank["resolved"] = 2
    /\ \A m \in MarkerType : Rank[m.phase] \in 0..2
BY MarkerFacts DEF Rank

\* An agent goes on with its conversation as long as its session lives.
LEMMA WritesStay ==
    ASSUME OwnerInv, [Next]_vars, NEW a \in Agents, writes[a] # None
    PROVE  writes'[a] = writes[a] \/ mark'[a] = None
<1> DEFINE Stays == writes'[a] = writes[a] \/ mark'[a] = None
<1>1. ASSUME NEW b \in Agents, EndSession(b) PROVE Stays
  BY <1>1, EndSessionFacts DEF OwnerInv
<1>2. CASE UNCHANGED writes BY <1>2
<1>3. ASSUME NEW p \in Owners, Process(p) PROVE Stays
  <2>1. CASE MarkHolder(p) \/ StartAgent(p)
    <3>1. proc[p].agent \in Agents
      BY <2>1, RunsFacts
      DEF MarkHolder, StartAgent, ProcessOK, LaunchOK, Launching
    <3>2. QED BY <1>1, <1>2, <2>1, <3>1 DEF MarkHolder, StartAgent, world
  <2>2. CASE \E b \in Agents : Kill(p, b) BY <1>1, <2>2 DEF Kill
  <2>3. CASE \/ Hold(p) \/ Register(p) \/ Compare(p) \/ Store(p)
             \/ EndDiscovery(p) \/ Prune(p) \/ SaveState(p) \/ Decide(p)
             \/ \E b \in Agents : Launch(p, b) \/ Examine(p, b) \/ Resolve(p, b)
             \/ \E s \in Ids : Resume(p, s)
    BY <1>2, <2>3
    DEF Hold, Register, Compare, Store, EndDiscovery, Prune, SaveState, Decide,
        Launch, Examine, Resolve, Resume, world
  <2>4. QED BY <1>3, <2>1, <2>2, <2>3 DEF Process
<1>4. CASE \E b \in Agents : SessionEnds(b)
  BY <1>1, <1>4 DEF SessionEnds
<1>5. CASE \E b \in Agents : Begins(b)
  BY <1>5 DEF Begins, OwnerInv, TypeOK
<1>6. CASE \/ \E p \in Owners : Start(p) \/ Crash(p) \/ PaneDies(p)
           \/ \E s \in Ids : Foreign(s) \/ ResumedEnds(s)
           \/ UNCHANGED vars
  BY <1>2, <1>6 DEF Start, Crash, PaneDies, Foreign, ResumedEnds, vars, world
<1>7. QED BY <1>3, <1>4, <1>5, <1>6 DEF Next

\* The lifecycle of a marker never goes back, whoever writes it next, and an agent
\* that /proc tells of keeps its conversation.
THEOREM NeverBack == Spec => Forward
<1> DEFINE Goes == \A a \in Agents : mark[a] # None /\ mark'[a] # None
              => /\ Rank[mark[a].phase] <= Rank[mark'[a].phase]
                 /\ a \in Codex /\ mark[a].phase = "resolved"
                      => mark'[a].id = mark[a].id
<1>0. (OwnerInv /\ BindInv)' => ExactBinding' BY BoundNow, PTL
<1>1. ASSUME OwnerInv, BindInv, [Next]_vars PROVE Goes
  <2> SUFFICES ASSUME NEW a \in Agents, mark[a] # None, mark'[a] # None
               PROVE  /\ Rank[mark[a].phase] <= Rank[mark'[a].phase]
                      /\ a \in Codex /\ mark[a].phase = "resolved"
                           => mark'[a].id = mark[a].id
    OBVIOUS
  <2>1. OwnerInv' /\ BindInv' BY <1>1, NextOwner, NextBind
  <2>2. mark[a] \in MarkerType /\ mark'[a] \in MarkerType
    BY <1>1, <2>1 DEF OwnerInv, TypeOK
  <2>3. /\ Rank[mark[a].phase] \in 0..2 /\ Rank[mark'[a].phase] \in 0..2
        /\ Rank["launching"] = 0 /\ Rank["resolved"] = 2
    BY <2>2, RankFacts
  <2>4. MarkMove(a) BY <1>1, MarkMoves
  <2>5. Rank[mark[a].phase] <= Rank[mark'[a].phase]
    <3>1. CASE mark'[a].phase = mark[a].phase BY <2>3, <3>1
    <3>2. CASE mark[a].phase = "launching" BY <2>3, <3>2
    <3>3. CASE mark'[a].phase = "resolved" BY <2>3, <3>3
    <3>4. QED BY <2>4, <3>1, <3>2, <3>3 DEF MarkMove
  <2>6. ASSUME a \in Codex, mark[a].phase = "resolved"
        PROVE  mark'[a].id = mark[a].id
    <3>1. mark'[a].phase = "resolved"
      BY <1>1, <2>2, <2>4, <2>6, <2>5, RankFacts, MarkerFacts DEF MarkMove
    <3>2. mark[a].id = writes[a] /\ mark'[a].id = writes'[a]
      BY <1>0, <1>1, <2>1, <2>6, <3>1, BoundNow DEF ExactBinding
    <3>3. writes[a] # None
      BY <2>2, <2>6, <3>2, MarkerFacts, NoneAssumption
    <3>4. QED BY <1>1, <3>2, <3>3, WritesStay
  <2>7. QED BY <2>5, <2>6
<1>2. OwnerInv /\ BindInv /\ [Next]_vars => [Goes]_vars BY <1>1
<1>3. QED BY BindAlways, <1>2, PTL DEF Spec, Forward

-----------------------------------------------------------------------------
(* What an undisturbed discovery is sure of *)

\* The agent has no owner that lives, or this one.
Adoptable(p, a, m) ==
    Alive(a) /\ m # None /\ (m.owner = p \/ pane[m.owner] = "gone")
\* The registry has it, or has its conversation.
Covered(p, a, m) == reg[p][a] # None \/ m.id \in Bound(p) \ {None}

\* No pane died since the process asked which live, what the listing says still
\* holds of the agents that it may adopt, and it has adopted those that it has
\* examined; afterwards it has them all.
SureOK(p) == proc[p].sure =>
    /\ proc[p].at \in Discovering \cup {"resolve"}
    /\ proc[p].loaded => \A q \in proc[p].live : pane[q] = "live"
    /\ proc[p].at \in Discovering => \A a \in Agents :
         /\ Adoptable(p, a, proc[p].snap[a])
              => a \in proc[p].todo \/ Covered(p, a, proc[p].snap[a])
         /\ Adoptable(p, a, mark[a])
              => mark[a] = proc[p].snap[a] \/ Covered(p, a, mark[a])
    /\ proc[p].at = "resolve" /\ proc[p].goal # None =>
         \A a \in Agents : Adoptable(p, a, mark[a]) => Covered(p, a, mark[a])

\* An agent that is to be examined is not in the registry, and an entry that is
\* to be resolved has no key.
QueueOK(p) ==
    /\ proc[p].at \in Discovering => \A a \in proc[p].todo : reg[p][a] = None
    /\ proc[p].at = "resolve" => \A a \in proc[p].todo : reg[p][a].key = None

SureInv == \A p \in Owners : SureOK(p) /\ QueueOK(p)

\* What is covered stays so while entries come and get their keys.
LEMMA CoversOn ==
    ASSUME NEW p \in Owners, own[p] \subseteq own'[p],
           \A b \in Agents : reg[p][b] # None =>
             /\ reg'[p][b] # None
             /\ reg[p][b].key = None \/ reg'[p][b].key = reg[p][b].key
    PROVE  \A b \in Agents : \A m : Covered(p, b, m) => Covered(p, b, m)'
<1>1. Bound(p) \ {None} \subseteq Bound(p)' BY DEF Bound
<1>2. QED BY <1>1 DEF Covered

\* What the steps of others leave to a process.
Left(q) ==
    /\ proc'[q] = proc[q] /\ reg'[q] = reg[q] /\ own'[q] = own[q]
    /\ \A r \in Owners : /\ pane[r] = "live" => pane'[r] = "live"
                         /\ pane'[r] = "gone" => pane[r] = "gone"
    /\ \A a \in Agents :
         /\ \/ mark'[a] = None \/ mark'[a] = mark[a]
            \/ mark'[a].owner # q /\ pane'[mark'[a].owner] # "gone"
         /\ Alive(a)' => Alive(a) \/ Unknown(a)

LEMMA LeftSure ==
    ASSUME OwnerInv, SureInv, NEW q \in Owners, Left(q)
    PROVE  SureOK(q)' /\ QueueOK(q)'
<1>1. /\ SureOK(q) /\ QueueOK(q) /\ proc[q] \in ProcType
      /\ \A a \in Agents : MarkOK(a)
      /\ mark \in [Agents -> MarkerType \cup {None}]
  BY DEF OwnerInv, TypeOK, SureInv
<1>2. QueueOK(q)' BY <1>1 DEF QueueOK, Left
<1>3. \A a \in Agents : \A m : Covered(q, a, m)' = Covered(q, a, m)
  BY DEF Left, Covered, Bound
<1>4. ASSUME NEW a \in Agents, NEW m \in MarkerType \cup {None},
             Adoptable(q, a, m)', ~Unknown(a)
      PROVE  Adoptable(q, a, m)
  <2>1. m \in MarkerType /\ m.owner \in Owners
    BY <1>4, MarkerFacts DEF Adoptable
  <2>2. QED BY <1>4, <2>1 DEF Adoptable, Left
<1>5. \A a \in Agents : /\ proc[q].snap[a] \in MarkerType \cup {None}
                        /\ proc[q].snap[a] # None => ~Unknown(a)
                        /\ mark[a] # None => ~Unknown(a)
  BY <1>1, ProcFacts DEF Unknown
<1>6. ASSUME NEW a \in Agents, Adoptable(q, a, mark[a])'
      PROVE  mark'[a] = mark[a] /\ Adoptable(q, a, mark[a])
  <2>1. mark'[a] = mark[a] BY <1>6 DEF Adoptable, Left
  <2>2. mark[a] # None BY <1>6, <2>1 DEF Adoptable
  <2>3. Adoptable(q, a, mark[a])
    <3>1. mark[a].owner \in Owners BY <1>1, <2>2, MarkerFacts
    <3>2. QED
      BY <1>5, <1>6, <2>1, <2>2, <3>1 DEF Adoptable, Left
  <2>4. QED BY <2>1, <2>3
<1>7. ASSUME NEW a \in Agents, Adoptable(q, a, proc[q].snap[a])'
      PROVE  Adoptable(q, a, proc[q].snap[a])
  <2>1. proc'[q] = proc[q] BY DEF Left
  <2>2. proc[q].snap[a] # None BY <1>7, <2>1 DEF Adoptable
  <2>3. proc[q].snap[a].owner \in Owners BY <1>5, <2>2, MarkerFacts
  <2>4. QED BY <1>5, <1>7, <2>1, <2>2, <2>3 DEF Adoptable, Left
<1>8. proc'[q] = proc[q] BY DEF Left
<1>9. \A r \in proc[q].live : pane[r] = "live" => pane'[r] = "live"
  BY <1>1, ProcFacts DEF Left
<1>10. SureOK(q)'
  <2> SUFFICES ASSUME proc[q].sure PROVE SureOK(q)'
    BY <1>8 DEF SureOK
  <2>1. proc[q].loaded => \A r \in proc[q].live : pane'[r] = "live"
    BY <1>1, <1>9 DEF SureOK
  <2>2. ASSUME proc[q].at \in Discovering, NEW a \in Agents
        PROVE  /\ Adoptable(q, a, proc[q].snap[a])'
                    => a \in proc[q].todo \/ Covered(q, a, proc[q].snap[a])'
               /\ Adoptable(q, a, mark[a])'
                    => mark'[a] = proc[q].snap[a] \/ Covered(q, a, mark[a])'
    <3>1. Adoptable(q, a, proc[q].snap[a])'
            => a \in proc[q].todo \/ Covered(q, a, proc[q].snap[a])
      BY <1>1, <1>7, <2>2 DEF SureOK
    <3>2. Adoptable(q, a, mark[a])'
            => mark'[a] = proc[q].snap[a] \/ Covered(q, a, mark'[a])
      BY <1>1, <1>6, <2>2 DEF SureOK
    <3>3. /\ Covered(q, a, proc[q].snap[a]) => Covered(q, a, proc[q].snap[a])'
          /\ Covered(q, a, mark'[a]) => Covered(q, a, mark[a])'
      BY DEF Left, Covered, Bound
    <3>4. QED BY <3>1, <3>2, <3>3
  <2>3. ASSUME proc[q].at = "resolve", proc[q].goal # None, NEW a \in Agents,
               Adoptable(q, a, mark[a])'
        PROVE  Covered(q, a, mark[a])'
    <3>1. Covered(q, a, mark'[a])
      BY <1>1, <1>6, <2>3 DEF SureOK
    <3>2. Covered(q, a, mark'[a]) => Covered(q, a, mark[a])'
      BY DEF Left, Covered, Bound
    <3>3. QED BY <3>1, <3>2
  <2>4. proc[q].at \in Discovering \cup {"resolve"}
    BY <1>1 DEF SureOK
  <2>5. QED BY <1>8, <2>1, <2>2, <2>3, <2>4 DEF SureOK
<1>11. QED BY <1>2, <1>10

LEMMA ProcessLeaves ==
    ASSUME OwnerInv, NEW p \in Owners, Process(p), NEW q \in Owners, q # p
    PROVE  Left(q)
<1>1. proc[p].at # "down" /\ pane[p] = "live" /\ ProcessOK(p)
  <2>1. proc[p].at # "down"
    BY DEF Process, Hold, MarkHolder, StartAgent, Register, Compare, Store,
           EndDiscovery, Prune, SaveState, Decide, Launch, Examine, Resolve,
           Kill, Resume
  <2>2. QED BY <2>1, RunsFacts
<1>2. proc[p].at \in Launching => proc[p].agent \in Agents
  BY <1>1 DEF ProcessOK, LaunchOK
<1>3. ASSUME NEW a \in Agents, EndSession(a)
      PROVE  pane' = pane /\ \A b \in Agents : Alive(b)' => Alive(b)
  BY <1>3, EndSessionFacts DEF OwnerInv, Alive
<1>4. /\ pane' = pane
      /\ \A a \in Agents : Alive(a)' => Alive(a) \/ Unknown(a)
  <2>1. CASE UNCHANGED <<pane, ses>> BY <2>1 DEF Alive
  <2>2. CASE Hold(p)
    <3>1. ses[proc[p].agent] = "none" /\ proc[p].agent \in Agents
      BY <1>1, <2>2 DEF Hold, ProcessOK, LaunchOK, Launching
    <3>2. Unknown(proc[p].agent) BY <3>1 DEF OwnerInv, MarkOK
    <3>3. \A b \in Agents : b # proc[p].agent => ses'[b] = ses[b]
      BY <2>2, <3>1 DEF Hold, OwnerInv, TypeOK
    <3>4. pane' = pane BY <2>2 DEF Hold, world
    <3>5. QED BY <3>2, <3>3, <3>4 DEF Alive
  <2>3. CASE MarkHolder(p)
    BY <1>2, <1>3, <2>1, <2>3 DEF MarkHolder, world, Launching
  <2>4. CASE StartAgent(p)
    <3>1. PICK a \in Agents : a = proc[p].agent
      BY <1>2, <2>4 DEF StartAgent, Launching
    <3>2. CASE EndSession(a) BY <1>3, <3>2
    <3>3. CASE Alive(a) /\ UNCHANGED world /\ ses' = [ses EXCEPT ![a] = "agent"]
      BY <3>3 DEF world, Alive, OwnerInv, TypeOK
    <3>4. QED BY <2>1, <2>4, <3>1, <3>2, <3>3 DEF StartAgent, world
  <2>5. CASE \E a \in Agents : Kill(p, a) BY <1>3, <2>5 DEF Kill
  <2>6. CASE \/ Register(p) \/ Compare(p) \/ Store(p) \/ EndDiscovery(p)
             \/ Prune(p) \/ SaveState(p) \/ Decide(p)
             \/ \E a \in Agents : Launch(p, a) \/ Examine(p, a) \/ Resolve(p, a)
             \/ \E s \in Ids : Resume(p, s)
    BY <2>1, <2>6
    DEF Register, Compare, Store, EndDiscovery, Prune, SaveState, Decide,
        Launch, Examine, Resolve, Resume, world
  <2>7. QED BY <2>2, <2>3, <2>4, <2>5, <2>6 DEF Process
<1>5. proc'[q] = proc[q] /\ own'[q] = own[q]
  <2>1. CASE Hold(p) \/ MarkHolder(p) \/ StartAgent(p) \/ Register(p)
    BY <2>1 DEF Hold, MarkHolder, StartAgent, Register, OwnerInv, TypeOK
  <2>2. CASE Compare(p) \/ Store(p) \/ \E a \in Agents : Examine(p, a)
    BY <2>2
    DEF Compare, Store, Examine, ExamineOwn, ExamineForeign, ExamineGone,
        NextOrphan, SkipOrphan, OwnerInv, TypeOK
  <2>3. CASE EndDiscovery(p) \/ Prune(p) \/ SaveState(p) \/ Decide(p)
    BY <2>3 DEF EndDiscovery, Prune, SaveState, Decide, OwnerInv, TypeOK
  <2>4. CASE \E a \in Agents : Launch(p, a) \/ Resolve(p, a) \/ Kill(p, a)
    BY <2>4 DEF Launch, Resolve, NextPlaceholder, Kill, OwnerInv, TypeOK
  <2>5. CASE \E s \in Ids : Resume(p, s)
    BY <2>5 DEF Resume, ListSessions, OwnerInv, TypeOK
  <2>6. QED BY <2>1, <2>2, <2>3, <2>4, <2>5 DEF Process
<1>6. reg'[q] = reg[q]
  <2>1. CASE \/ Hold(p) \/ MarkHolder(p) \/ StartAgent(p) \/ Compare(p)
             \/ EndDiscovery(p) \/ SaveState(p)
             \/ \E a \in Agents : Launch(p, a)
             \/ \E s \in Ids : Resume(p, s)
    BY <2>1 DEF Hold, MarkHolder, StartAgent, Compare, EndDiscovery, SaveState,
                Launch, Resume
  <2>2. CASE Register(p) BY <2>2 DEF Register, OwnerInv, TypeOK
  <2>3. CASE Store(p) BY <2>3 DEF Store, Adopt, OwnerInv, TypeOK
  <2>4. CASE \E a \in Agents : Examine(p, a)
    BY <2>4
    DEF Examine, ExamineOwn, ExamineForeign, ExamineGone, Adopt, OwnerInv,
        TypeOK
  <2>5. CASE Prune(p) \/ Decide(p) BY <2>5 DEF Prune, Decide, OwnerInv, TypeOK
  <2>6. CASE \E a \in Agents : Resolve(p, a) \/ Kill(p, a)
    BY <2>6 DEF Resolve, Kill, OwnerInv, TypeOK
  <2>7. QED BY <2>1, <2>2, <2>3, <2>4, <2>5, <2>6 DEF Process
<1>7. \A a \in Agents : MarkBy(p, a) BY ProcessMarks
<1>8. QED BY <1>1, <1>4, <1>5, <1>6, <1>7 DEF Left, MarkBy

\* Away from discovery and resolution there is nothing to be sure of.
LEMMA SureOut ==
    ASSUME NEW p \in Owners, proc'[p].sure = FALSE,
           proc'[p].at \notin Discovering \cup {"resolve"}
    PROVE  SureOK(p)' /\ QueueOK(p)'
BY DEF SureOK, QueueOK

LEMMA LaunchingSure ==
    ASSUME OwnerInv, SureInv, NEW p \in Owners,
           \/ Hold(p) \/ MarkHolder(p) \/ StartAgent(p) \/ Register(p)
           \/ \E a \in Agents : Launch(p, a) \/ Kill(p, a)
           \/ Decide(p)
    PROVE  SureOK(p)' /\ QueueOK(p)'
<1>1. proc[p] \in ProcType /\ SureOK(p) /\ proc[p].sure \in BOOLEAN
  BY ProcFacts DEF OwnerInv, TypeOK, SureInv
<1>2. proc[p].at \in Launching \cup {"run"} => proc[p].sure = FALSE
  BY <1>1 DEF SureOK, Launching, Discovering
<1>3. CASE proc' = [proc EXCEPT ![p] = Idle]
  BY <1>3, IdleFacts, SureOut DEF Discovering, OwnerInv, TypeOK
<1>4. ASSUME proc[p].at \in Launching, NEW l \in {"mark", "start", "register"},
             proc' = [proc EXCEPT ![p].at = l]
      PROVE  SureOK(p)' /\ QueueOK(p)'
  <2>1. proc'[p].at = l /\ proc'[p].sure = proc[p].sure
    BY <1>1, <1>4 DEF OwnerInv, TypeOK, ProcType
  <2>2. QED BY <1>2, <1>4, <2>1, SureOut DEF Discovering
<1>5. CASE \E a \in Agents : Launch(p, a)
  <2>1. \E a, e : proc' = [proc EXCEPT ![p] =
                   [Idle EXCEPT !.at = "hold", !.agent = a, !.entry = e]]
    BY <1>5 DEF Launch
  <2>2. PICK a, e : proc' = [proc EXCEPT ![p] =
                   [Idle EXCEPT !.at = "hold", !.agent = a, !.entry = e]]
    BY <2>1
  <2>3. Idle \in ProcType /\ Idle.sure = FALSE BY IdleFacts
  <2>4. proc'[p].at = "hold" /\ proc'[p].sure = FALSE
    BY <2>2, <2>3 DEF OwnerInv, TypeOK, ProcType
  <2>5. QED BY <2>4, SureOut DEF Discovering
<1>6. CASE \E a \in Agents : Kill(p, a)
  BY <1>2, <1>6, SureOut DEF Kill, Discovering
<1>7. QED
  BY <1>3, <1>4, <1>5, <1>6
  DEF Hold, MarkHolder, StartAgent, Register, Decide, Launching

LEMMA ListSessionsSure ==
    ASSUME OwnerInv, NEW p \in Owners, NEW s \in Ids \cup {None},
           ListSessions(p, s), UNCHANGED <<mark, reg, own>>
    PROVE  SureOK(p)' /\ QueueOK(p)'
<1> DEFINE d == [Idle EXCEPT !.at = "examine", !.goal = s]
           t == {a \in Agents : mark[a] # None /\ reg[p][a] = None}
           f == [d EXCEPT !.snap = mark, !.sure = TRUE, !.todo = t]
<1>1. /\ d \in ProcType /\ d.at = "examine" /\ d.todo = {} /\ d.sure = FALSE
      /\ d.loaded = FALSE
  BY IdleFacts DEF ProcType, Labels
<1>2. mark \in [Agents -> MarkerType \cup {None}] /\ t \in SUBSET Agents
  BY DEF OwnerInv, TypeOK
<1>3. proc' = [proc EXCEPT ![p] = d] \/ proc' = [proc EXCEPT ![p] = f]
  BY DEF ListSessions
<1>4. t = {a \in Agents : mark[a] # None /\ reg[p][a] = None} OBVIOUS
<1> HIDE DEF d, t
<1>5. /\ f \in ProcType /\ f.at = "examine" /\ f.todo = t /\ f.snap = mark
      /\ f.loaded = FALSE
  BY <1>1, <1>2 DEF ProcType
<1> HIDE DEF f
<1>6. PICK g \in {d, f} : proc' = [proc EXCEPT ![p] = g] BY <1>3
<1>7. proc'[p] = g BY <1>6 DEF OwnerInv, TypeOK
<1>8. /\ g.at = "examine" /\ g.loaded = FALSE
      /\ g = d \/ (g.todo = t /\ g.snap = mark)
  BY <1>1, <1>5
<1>9. QueueOK(p)'
  BY <1>1, <1>4, <1>7, <1>8 DEF QueueOK
<1>10. SureOK(p)'
  <2>1. CASE g = d BY <1>1, <1>7, <2>1 DEF SureOK
  <2>2. CASE g.todo = t /\ g.snap = mark
    <3>1. \A a \in Agents : Adoptable(p, a, mark[a])'
            => a \in t \/ Covered(p, a, mark[a])'
      BY <1>4 DEF Adoptable, Covered
    <3>2. mark' = mark OBVIOUS
    <3>3. QED BY <1>7, <1>8, <2>2, <3>1, <3>2 DEF SureOK, Discovering
  <2>3. QED BY <1>8, <2>1, <2>2
<1>11. QED BY <1>9, <1>10

\* One session is examined or claimed, and the listing goes on.
LEMMA PassedSure ==
    ASSUME OwnerInv, SureInv, NEW p \in Owners, NEW a \in Agents,
           NEW sure \in BOOLEAN, proc[p].at \in Discovering, a \in proc[p].todo,
           proc'[p] = Passed(p, a, sure), UNCHANGED <<pane, ses, own>>,
           \A b \in Agents : b # a => mark'[b] = mark[b] /\ reg'[p][b] = reg[p][b],
           sure => /\ proc[p].sure
                   /\ Adoptable(p, a, proc[p].snap[a])
                        => Covered(p, a, proc[p].snap[a])'
                   /\ Adoptable(p, a, mark[a])'
                        => mark'[a] = proc[p].snap[a] \/ Covered(p, a, mark[a])'
    PROVE  SureOK(p)' /\ QueueOK(p)'
<1> DEFINE d == Passed(p, a, sure)
<1>1. /\ d.at = "examine" /\ d.todo = proc[p].todo \ {a} /\ d.sure = sure
      /\ d.snap = proc[p].snap /\ d.loaded = proc[p].loaded
      /\ d.live = proc[p].live
  BY PassedFacts DEF OwnerInv
<1>2. proc'[p] = d OBVIOUS
<1> HIDE DEF d
<1>3. /\ SureOK(p) /\ QueueOK(p) /\ proc[p].todo \in SUBSET Agents
  BY ProcFacts DEF SureInv, OwnerInv, TypeOK
<1>4. reg[p][a] = None BY <1>3 DEF QueueOK
<1>5. QueueOK(p)' BY <1>1, <1>2, <1>3 DEF QueueOK
<1>6. \A b \in Agents : \A m : Covered(p, b, m) => Covered(p, b, m)'
  BY <1>4, CoversOn
<1>7. ASSUME sure, NEW b \in Agents
      PROVE  /\ Adoptable(p, b, proc[p].snap[b])
                  => b \in proc[p].todo \ {a} \/ Covered(p, b, proc[p].snap[b])'
             /\ Adoptable(p, b, mark[b])'
                  => mark'[b] = proc[p].snap[b] \/ Covered(p, b, mark[b])'
  <2>1. CASE b = a BY <1>7, <2>1
  <2>2. CASE b # a
    <3>1. mark'[b] = mark[b] BY <2>2
    <3>2. /\ Adoptable(p, b, proc[p].snap[b])
               => b \in proc[p].todo \/ Covered(p, b, proc[p].snap[b])
          /\ Adoptable(p, b, mark[b])
               => mark[b] = proc[p].snap[b] \/ Covered(p, b, mark[b])
      BY <1>3, <1>7 DEF SureOK
    <3>3. /\ Covered(p, b, proc[p].snap[b]) => Covered(p, b, proc[p].snap[b])'
          /\ Covered(p, b, mark[b]) => Covered(p, b, mark[b])'
      <4>1. proc'[p].snap[b] = proc[p].snap[b] BY <1>1, <1>2
      <4>2. QED BY <1>6, <3>1, <4>1 DEF Covered
    <3>4. Adoptable(p, b, mark[b])' = Adoptable(p, b, mark[b])
      BY <3>1 DEF Adoptable, Alive
    <3>5. QED BY <2>2, <3>1, <3>2, <3>3, <3>4
  <2>3. QED BY <2>1, <2>2
<1>8. \A b \in Agents : Adoptable(p, b, proc[p].snap[b])'
                          => Adoptable(p, b, proc[p].snap[b])
  BY <1>1, <1>2 DEF Adoptable, Alive
<1>9. SureOK(p)'
  <2>1. sure => /\ proc[p].sure
                /\ proc[p].loaded => \A q \in proc[p].live : pane[q] = "live"
    BY <1>3 DEF SureOK
  <2>2. QED
    BY <1>1, <1>2, <1>7, <1>8, <2>1 DEF SureOK, Discovering
<1>10. QED BY <1>5, <1>9

LEMMA AdoptCovers ==
    ASSUME TypeOK, NEW p \in Owners, NEW a \in Agents, NEW m \in MarkerType,
           Adopt(p, a, m), own' = own
    PROVE  \A n : n.id = m.id => Covered(p, a, n)'
<1>1. PICK e \in EntryType :
        /\ e.key = None \/ e.key = m.id
        /\ \/ reg' = reg /\ e.key \in Bound(p) \ {None}
           \/ reg' = [reg EXCEPT ![p][a] = e]
  BY AdoptFacts
<1>2. CASE reg' = reg /\ e.key \in Bound(p) \ {None}
  BY <1>1, <1>2 DEF Covered, Bound
<1>3. CASE reg' = [reg EXCEPT ![p][a] = e]
  <2>1. reg'[p][a] = e /\ e # None
    BY <1>3, EntryFacts DEF TypeOK
  <2>2. QED BY <2>1 DEF Covered
<1>4. QED BY <1>1, <1>2, <1>3

LEMMA ExamineSure ==
    ASSUME OwnerInv, SureInv, NEW p \in Owners, NEW a \in Agents, Examine(p, a)
    PROVE  SureOK(p)' /\ QueueOK(p)'
<1>1. /\ proc[p].at = "examine" /\ a \in proc[p].todo
      /\ proc[p].snap[a] \in MarkerType /\ proc[p].snap[a] # None
      /\ SureOK(p) /\ QueueOK(p) /\ proc[p].todo \in SUBSET Agents
  <2>1. proc[p] \in ProcType /\ ProcessOK(p) /\ proc[p].at = "examine"
        /\ a \in proc[p].todo
    BY RunsFacts DEF Examine
  <2>2. QED
    BY <2>1, ProcFacts, MarkerFacts DEF ProcessOK, ListingOK, Discovering, SureInv
<1>2. UNCHANGED <<pane, ses, mark, own>> BY DEF Examine, world
<1>3. reg[p][a] = None /\ proc[p].at \in Discovering
  BY <1>1 DEF QueueOK, Discovering
<1>4. CASE Alive(a) /\ ExamineOwn(p, a)
  <2>1. /\ proc' = [proc EXCEPT ![p] = Passed(p, a, proc[p].sure)]
        /\ proc[p].sure \in BOOLEAN
    BY <1>4, OrphanFacts DEF ExamineOwn, OwnerInv
  <2>2. proc'[p] = Passed(p, a, proc[p].sure)
    BY <2>1 DEF OwnerInv, TypeOK
  <2>3. \A n : n.id = proc[p].snap[a].id => Covered(p, a, n)'
    BY <1>1, <1>2, <1>4, AdoptCovers DEF ExamineOwn, OwnerInv
  <2>4. \A b \in Agents : b # a => reg'[p][b] = reg[p][b]
    BY <1>1, <1>4, AdoptedReg DEF ExamineOwn, OwnerInv
  <2>5. \A m : Covered(p, a, m) => Covered(p, a, m)'
    BY <1>2, <1>3, <2>4, CoversOn
  <2>6. proc'[p].snap[a] = proc[p].snap[a]
    BY <2>1, <2>2, PassedFacts DEF OwnerInv
  <2>7. Covered(p, a, proc[p].snap[a])' BY <2>3, <2>6 DEF Covered
  <2>8. proc[p].sure /\ Adoptable(p, a, mark[a])'
          => mark'[a] = proc[p].snap[a] \/ Covered(p, a, mark[a])'
    <3>1. Adoptable(p, a, mark[a])' = Adoptable(p, a, mark[a])
      BY <1>2 DEF Adoptable, Alive
    <3>2. Covered(p, a, mark[a]) => Covered(p, a, mark[a])'
      BY <1>2, <2>5 DEF Covered
    <3>3. QED BY <1>1, <1>2, <1>3, <3>1, <3>2 DEF SureOK
  <2>9. QED
    BY <1>1, <1>2, <1>3, <2>1, <2>2, <2>4, <2>7, <2>8, PassedSure
<1>5. CASE ExamineGone(p, a)
  <2>1. reg' = reg BY <1>5 DEF ExamineGone
  <2>2. CASE ~Alive(a) /\ NextOrphan(p, a)
    <3>1. /\ proc' = [proc EXCEPT ![p] = Passed(p, a, proc[p].sure)]
          /\ proc[p].sure \in BOOLEAN
      BY <2>2, OrphanFacts DEF OwnerInv
    <3>2. proc'[p] = Passed(p, a, proc[p].sure)
      BY <3>1 DEF OwnerInv, TypeOK
    <3>3. \A m : ~Adoptable(p, a, m) /\ ~Adoptable(p, a, m)'
      BY <1>2, <2>2 DEF Adoptable, Alive
    <3>4. ~Adoptable(p, a, mark[a])'
      BY <1>2, <2>2 DEF Adoptable, Alive
    <3>5. QED
      BY <1>1, <1>2, <1>3, <2>1, <3>1, <3>2, <3>3, <3>4, PassedSure
  <2>3. CASE SkipOrphan(p, a)
    <3>1. proc' = [proc EXCEPT ![p] = Passed(p, a, FALSE)]
      BY <2>3, OrphanFacts DEF OwnerInv
    <3>2. proc'[p] = Passed(p, a, FALSE) BY <3>1 DEF OwnerInv, TypeOK
    <3>3. QED BY <1>1, <1>2, <1>3, <2>1, <3>2, PassedSure
  <2>4. QED BY <1>5, <2>2, <2>3 DEF ExamineGone
<1>6. CASE Alive(a) /\ ExamineForeign(p, a)
  <2>1. PICK d \in ProcType : ForeignStep(p, a, d)
    BY <1>1, <1>6, ForeignFacts
  <2>2. proc'[p] = d BY <2>1 DEF ForeignStep, OwnerInv, TypeOK
  <2>3. reg' = reg /\ proc[p].snap[a].owner # p
    BY <1>6 DEF ExamineForeign
  <2>4. /\ d.at \in Discovering /\ d.at # "resolve"
        /\ d.todo \in {proc[p].todo, proc[p].todo \ {a}}
        /\ d.snap = proc[p].snap
    BY <2>1 DEF ForeignStep, Discovering
  <2>5. QueueOK(p)' BY <1>1, <1>3, <2>2, <2>3, <2>4 DEF QueueOK
  <2>6. SureOK(p)'
    <3> SUFFICES ASSUME d.sure PROVE SureOK(p)'
      BY <2>2 DEF SureOK
    <3>1. proc[p].sure /\ d.live = Live(p)
      BY <2>1 DEF ForeignStep
    <3>2. \A q \in d.live : pane[q] = "live"
      BY <1>1, <3>1 DEF SureOK, Live
    <3>3. d.todo = proc[p].todo \/ ~Adoptable(p, a, proc[p].snap[a])
      <4>1. d.todo # proc[p].todo => d.snap[a].owner \in d.live
        BY <2>1 DEF ForeignStep
      <4>2. QED BY <2>3, <2>4, <3>2, <4>1 DEF Adoptable
    <3>4. \A b \in Agents :
            /\ Adoptable(p, b, proc[p].snap[b])
                 => b \in d.todo \/ Covered(p, b, proc[p].snap[b])
            /\ Adoptable(p, b, mark[b])
                 => mark[b] = proc[p].snap[b] \/ Covered(p, b, mark[b])
      BY <1>1, <1>3, <2>4, <3>1, <3>3 DEF SureOK
    <3>5. \A b \in Agents : \A m : /\ Adoptable(p, b, m)' = Adoptable(p, b, m)
                                   /\ Covered(p, b, m)' = Covered(p, b, m)
      BY <1>2, <2>3 DEF Adoptable, Alive, Covered, Bound
    <3>6. \A b \in Agents :
            /\ Adoptable(p, b, d.snap[b])'
                 => b \in d.todo \/ Covered(p, b, d.snap[b])'
            /\ Adoptable(p, b, mark[b])'
                 => mark'[b] = d.snap[b] \/ Covered(p, b, mark[b])'
      BY <1>2, <2>4, <3>4, <3>5 DEF Adoptable, Covered, Alive
    <3>7. QED
      BY <1>2, <2>2, <2>4, <3>2, <3>6 DEF SureOK
  <2>7. QED BY <2>5, <2>6
<1>7. QED BY <1>4, <1>5, <1>6 DEF Examine

LEMMA CompareSure ==
    ASSUME OwnerInv, SureInv, NEW p \in Owners, Compare(p)
    PROVE  SureOK(p)' /\ QueueOK(p)'
<1>1. /\ proc[p] \in ProcType /\ proc[p].at \in Discovering
      /\ SureOK(p) /\ QueueOK(p)
  BY DEF Compare, SureInv, OwnerInv, TypeOK, Discovering
<1>2. PICK a \in Agents : a = proc[p].agent /\ a \in proc[p].todo
  BY ClaimFacts DEF Compare, Claiming
<1>3. UNCHANGED <<pane, ses, mark, reg, own>> BY DEF Compare, world
<1>4. CASE proc' = [proc EXCEPT ![p].at = "store"]
  <2>1. /\ proc'[p].at = "store" /\ proc'[p].todo = proc[p].todo
        /\ proc'[p].snap = proc[p].snap /\ proc'[p].loaded = proc[p].loaded
        /\ proc'[p].live = proc[p].live /\ proc'[p].sure = proc[p].sure
    BY <1>1, <1>4 DEF OwnerInv, TypeOK, ProcType
  <2>2. \A b \in Agents : \A m : /\ Adoptable(p, b, m)' = Adoptable(p, b, m)
                                 /\ Covered(p, b, m)' = Covered(p, b, m)
    BY <1>3 DEF Adoptable, Alive, Covered, Bound
  <2>3. \A b \in Agents :
          /\ Adoptable(p, b, proc[p].snap[b])' = Adoptable(p, b, proc[p].snap[b])
          /\ Covered(p, b, proc[p].snap[b])' = Covered(p, b, proc[p].snap[b])
          /\ Adoptable(p, b, mark[b])' = Adoptable(p, b, mark[b])
          /\ Covered(p, b, mark[b])' = Covered(p, b, mark[b])
    BY <1>3, <2>1, <2>2 DEF Adoptable, Covered, Alive
  <2>4. SureOK(p)'
    BY <1>1, <1>3, <2>1, <2>3 DEF SureOK, Discovering
  <2>5. QueueOK(p)' BY <1>1, <1>3, <2>1 DEF QueueOK
  <2>6. QED BY <2>4, <2>5
<1>5. CASE SkipOrphan(p, a)
  <2>1. proc' = [proc EXCEPT ![p] = Passed(p, a, FALSE)]
    BY <1>5, OrphanFacts DEF OwnerInv
  <2>2. proc'[p] = Passed(p, a, FALSE) BY <2>1 DEF OwnerInv, TypeOK
  <2>3. QED BY <1>1, <1>2, <1>3, <2>2, PassedSure
<1>6. QED BY <1>2, <1>4, <1>5 DEF Compare

LEMMA StoreSure ==
    ASSUME OwnerInv, SureInv, NEW p \in Owners, Store(p)
    PROVE  SureOK(p)' /\ QueueOK(p)'
<1>1. /\ proc[p] \in ProcType /\ proc[p].at \in Discovering
      /\ SureOK(p) /\ QueueOK(p)
  BY DEF Store, SureInv, OwnerInv, TypeOK, Discovering
<1>2. PICK a \in Agents :
        /\ a = proc[p].agent /\ a \in proc[p].todo
        /\ proc[p].snap[a] \in MarkerType
  BY ClaimFacts DEF Store, Claiming
<1> DEFINE m == Owned(proc[p].snap[a], p)
<1>3. m \in MarkerType /\ m.id = proc[p].snap[a].id BY <1>2, MarkerFacts
<1>4. UNCHANGED <<pane, ses, own>> BY DEF Store, world
<1>5. \/ /\ Alive(a) /\ Write(a, m, TRUE) /\ Adopt(p, a, m)
         /\ NextOrphan(p, a)
      \/ /\ Write(a, m, FALSE) /\ UNCHANGED reg /\ SkipOrphan(p, a)
      \/ ~Alive(a) /\ UNCHANGED <<mark, reg>> /\ NextOrphan(p, a)
  BY <1>2 DEF Store
<1> HIDE DEF m
<1>6. CASE /\ Alive(a) /\ Write(a, m, TRUE) /\ Adopt(p, a, m)
           /\ NextOrphan(p, a)
  <2>1. /\ proc' = [proc EXCEPT ![p] = Passed(p, a, proc[p].sure)]
        /\ proc[p].sure \in BOOLEAN
    BY <1>6, OrphanFacts DEF OwnerInv
  <2>2. proc'[p] = Passed(p, a, proc[p].sure)
    BY <2>1 DEF OwnerInv, TypeOK
  <2>3. proc'[p].snap = proc[p].snap
    BY <2>1, <2>2, PassedFacts DEF OwnerInv
  <2>4. \A n : n.id = m.id => Covered(p, a, n)'
    BY <1>3, <1>4, <1>6, AdoptCovers DEF OwnerInv
  <2>5. mark'[a] = m /\ \A b \in Agents : b # a => mark'[b] = mark[b]
    BY <1>3, <1>6, WriteFacts DEF OwnerInv
  <2>6. Covered(p, a, proc[p].snap[a])' /\ Covered(p, a, mark[a])'
    BY <1>3, <2>3, <2>4, <2>5 DEF Covered
  <2>7. \A b \in Agents : b # a => reg'[p][b] = reg[p][b]
    BY <1>3, <1>6, AdoptedReg DEF OwnerInv
  <2>8. QED
    BY <1>1, <1>2, <1>4, <2>1, <2>2, <2>5, <2>6, <2>7, PassedSure
<1>7. CASE Write(a, m, FALSE) /\ UNCHANGED reg /\ SkipOrphan(p, a)
  <2>1. proc' = [proc EXCEPT ![p] = Passed(p, a, FALSE)]
    BY <1>7, OrphanFacts DEF OwnerInv
  <2>2. proc'[p] = Passed(p, a, FALSE) BY <2>1 DEF OwnerInv, TypeOK
  <2>3. \A b \in Agents : b # a => mark'[b] = mark[b]
    BY <1>3, <1>7, WriteFacts DEF OwnerInv
  <2>4. QED BY <1>1, <1>2, <1>4, <1>7, <2>2, <2>3, PassedSure
<1>8. CASE ~Alive(a) /\ UNCHANGED <<mark, reg>> /\ NextOrphan(p, a)
  <2>1. /\ proc' = [proc EXCEPT ![p] = Passed(p, a, proc[p].sure)]
        /\ proc[p].sure \in BOOLEAN
    BY <1>8, OrphanFacts DEF OwnerInv
  <2>2. proc'[p] = Passed(p, a, proc[p].sure)
    BY <2>1 DEF OwnerInv, TypeOK
  <2>3. ~Adoptable(p, a, proc[p].snap[a]) /\ ~Adoptable(p, a, mark[a])'
    BY <1>4, <1>8 DEF Adoptable, Alive
  <2>4. QED
    BY <1>1, <1>2, <1>4, <1>8, <2>1, <2>2, <2>3, PassedSure
<1>9. QED BY <1>5, <1>6, <1>7, <1>8

LEMMA EndDiscoverySure ==
    ASSUME OwnerInv, SureInv, NEW p \in Owners, EndDiscovery(p)
    PROVE  SureOK(p)' /\ QueueOK(p)'
<1> DEFINE t == Placeholders(p)
           d == [Idle EXCEPT !.at = "resolve", !.goal = proc[p].goal,
                             !.sure = proc[p].sure, !.todo = t]
<1>1. /\ proc[p] \in ProcType /\ proc[p].at = "examine" /\ proc[p].todo = {}
      /\ SureOK(p) /\ t \in SUBSET Agents
      /\ own[p] \subseteq own'[p]
  BY DEF EndDiscovery, SureInv, OwnerInv, TypeOK, Placeholders
<1>2. UNCHANGED <<pane, ses, mark, reg>> BY DEF EndDiscovery, world
<1>3. proc' = [proc EXCEPT ![p] = Idle] \/ proc' = [proc EXCEPT ![p] = d]
  BY DEF EndDiscovery
<1>4. \A a \in t : reg[p][a].key = None BY DEF Placeholders
<1> HIDE DEF t
<1>5. /\ d.at = "resolve" /\ d.todo = t /\ d.sure = proc[p].sure
      /\ d.loaded = FALSE
  BY <1>1, IdleFacts DEF ProcType
<1> HIDE DEF d
<1>6. CASE proc' = [proc EXCEPT ![p] = Idle]
  BY <1>6, IdleFacts, SureOut DEF Discovering, OwnerInv, TypeOK
<1>7. CASE proc' = [proc EXCEPT ![p] = d]
  <2>1. proc'[p] = d BY <1>7 DEF OwnerInv, TypeOK
  <2>2. QueueOK(p)' BY <1>2, <1>4, <1>5, <2>1 DEF QueueOK, Discovering
  <2>3. \A a \in Agents : \A m : Covered(p, a, m) => Covered(p, a, m)'
    BY <1>1, <1>2, CoversOn
  <2>4. ASSUME proc[p].sure, NEW a \in Agents, Adoptable(p, a, mark[a])'
        PROVE  Covered(p, a, mark[a])'
    <3>1. Adoptable(p, a, mark[a]) BY <1>2, <2>4 DEF Adoptable, Alive
    <3>2. Covered(p, a, mark[a])
      BY <1>1, <2>4, <3>1 DEF SureOK, Discovering
    <3>3. QED BY <1>2, <2>3, <3>2 DEF Covered
  <2>5. SureOK(p)'
    BY <1>5, <2>1, <2>4 DEF SureOK, Discovering
  <2>6. QED BY <2>2, <2>5
<1>8. QED BY <1>3, <1>6, <1>7

LEMMA PruneSure ==
    ASSUME OwnerInv, SureInv, NEW p \in Owners, Prune(p)
    PROVE  SureOK(p)' /\ QueueOK(p)'
<1> DEFINE t == {a \in Placeholders(p) : Alive(a)}
           d == [proc[p] EXCEPT !.at = "resolve", !.todo = t]
<1>1. /\ proc[p] \in ProcType /\ proc[p].at = "run" /\ SureOK(p)
      /\ proc[p].sure \in BOOLEAN
  BY ProcFacts DEF Prune, SureInv, OwnerInv, TypeOK
<1>2. proc[p].sure = FALSE BY <1>1 DEF SureOK, Discovering
<1>3. proc' = proc \/ proc' = [proc EXCEPT ![p] = d] BY DEF Prune
<1>4. t \subseteq Agents /\ \A a \in t : reg'[p][a].key = None
  BY DEF Placeholders, Prune, OwnerInv, TypeOK
<1> HIDE DEF t
<1>5. d.at = "resolve" /\ d.todo = t /\ d.sure = FALSE
  BY <1>1, <1>2 DEF ProcType
<1> HIDE DEF d
<1>6. CASE proc' = proc BY <1>1, <1>2, <1>6, SureOut DEF Discovering
<1>7. CASE proc' = [proc EXCEPT ![p] = d]
  <2>1. proc'[p] = d BY <1>7 DEF OwnerInv, TypeOK
  <2>2. QED BY <1>4, <1>5, <2>1 DEF SureOK, QueueOK, Discovering
<1>8. QED BY <1>3, <1>6, <1>7

LEMMA ResolveSure ==
    ASSUME OwnerInv, SureInv, NEW p \in Owners, NEW a \in Agents, Resolve(p, a)
    PROVE  SureOK(p)' /\ QueueOK(p)'
<1>1. /\ proc[p].at = "resolve" /\ a \in proc[p].todo /\ reg[p][a] # None
      /\ SureOK(p) /\ QueueOK(p) /\ proc[p].todo \in SUBSET Agents
  BY ProcFacts DEF Resolve, SureInv, OwnerInv, TypeOK, ProcessOK, ResolveOK
<1>2. PICK d \in ProcType : Placed(p, a, d)
  BY <1>1, PlacedFacts DEF Resolve
<1>3. proc'[p] = d BY <1>2 DEF Placed, OwnerInv, TypeOK
<1>4. UNCHANGED <<pane, ses, own>> BY DEF Resolve, world
<1>5. /\ \A b \in Agents : b # a => mark'[b] = mark[b] /\ reg'[p][b] = reg[p][b]
      /\ reg'[p][a] # None
  <2>1. CASE reg' = reg /\ mark' = mark BY <1>1, <2>1
  <2>2. CASE \E s \in Ids : Chosen(p, a, s) BY <1>1, <2>2, ChosenFacts
  <2>3. QED BY <2>1, <2>2, ResolveEffect
<1>6. CASE d.at = "run"
  BY <1>2, <1>3, <1>6, SureOut DEF Placed, Discovering
<1>7. CASE d.at = "resolve"
  <2>1. d.todo = proc[p].todo \ {a} /\ d.goal = proc[p].goal
        /\ d.sure = proc[p].sure /\ d.snap = proc[p].snap
    BY <1>2, <1>7 DEF Placed
  <2>2. QueueOK(p)'
    BY <1>1, <1>3, <1>5, <1>7, <2>1 DEF QueueOK, Discovering
  <2>3. reg[p][a].key = None BY <1>1 DEF QueueOK
  <2>4. \A b \in Agents : \A m : Covered(p, b, m) => Covered(p, b, m)'
    BY <1>4, <1>5, <2>3, CoversOn
  <2>5. ASSUME proc[p].sure, proc[p].goal # None, NEW b \in Agents,
               Adoptable(p, b, mark[b])'
        PROVE  Covered(p, b, mark[b])'
    <3>1. CASE b = a BY <1>5, <3>1 DEF Covered
    <3>2. CASE b # a
      <4>1. mark'[b] = mark[b] BY <1>5, <3>2
      <4>2. Adoptable(p, b, mark[b])
        BY <1>4, <2>5, <4>1 DEF Adoptable, Alive
      <4>3. Covered(p, b, mark[b]) BY <1>1, <2>5, <4>2 DEF SureOK
      <4>4. QED BY <2>4, <4>1, <4>3 DEF Covered
    <3>3. QED BY <3>1, <3>2
  <2>6. d.sure /\ d.loaded => \A q \in d.live : pane'[q] = "live"
    BY <1>1, <1>2, <1>4, <1>7 DEF Placed, SureOK
  <2>7. SureOK(p)'
    BY <1>3, <1>7, <2>1, <2>5, <2>6 DEF SureOK, Discovering
  <2>8. QED BY <2>2, <2>7
<1>8. QED BY <1>2, <1>6, <1>7 DEF Placed

LEMMA ProcessSure ==
    ASSUME OwnerInv, SureInv, NEW p \in Owners, Process(p)
    PROVE  SureInv'
<1>1. \A q \in Owners : q # p => SureOK(q)' /\ QueueOK(q)'
  BY ProcessLeaves, LeftSure
<1>2. SureOK(p)' /\ QueueOK(p)'
  <2>1. CASE SaveState(p)
    <3>1. Left(p) BY <2>1 DEF SaveState, world, Left, Alive
    <3>2. QED BY <3>1, LeftSure
  <2>2. CASE \E s \in Ids : Resume(p, s)
    BY <2>2, ListSessionsSure DEF Resume
  <2>3. QED
    BY <2>1, <2>2, LaunchingSure, ExamineSure, CompareSure, StoreSure,
       EndDiscoverySure, PruneSure, ResolveSure
    DEF Process
<1>3. QED BY <1>1, <1>2 DEF SureInv

LEMMA OutsideSure ==
    ASSUME OwnerInv, SureInv,
           \/ \E p \in Owners : Start(p) \/ Crash(p) \/ PaneDies(p)
           \/ \E a \in Agents : SessionEnds(a) \/ Begins(a)
           \/ \E s \in Ids : Foreign(s) \/ ResumedEnds(s)
           \/ UNCHANGED vars
    PROVE  SureInv'
<1>1. ASSUME NEW p \in Owners, Start(p) PROVE SureInv'
  <2>1. \A q \in Owners : q # p => Left(q)
    BY <1>1 DEF Start, ListSessions, Left, Alive, OwnerInv, TypeOK
  <2>2. SureOK(p)' /\ QueueOK(p)'
    BY <1>1, ListSessionsSure DEF Start
  <2>3. QED BY <2>1, <2>2, LeftSure DEF SureInv
<1>2. ASSUME NEW p \in Owners, Crash(p) PROVE SureInv'
  <2>1. \A q \in Owners : q # p => Left(q)
    BY <1>2 DEF Crash, Ends, world, Left, Alive, OwnerInv, TypeOK
  <2>2. proc'[p] = Down BY <1>2 DEF Crash, OwnerInv, TypeOK
  <2>3. SureOK(p)' /\ QueueOK(p)'
    BY <2>2, IdleFacts, SureOut DEF Discovering
  <2>4. QED BY <2>1, <2>3, LeftSure DEF SureInv
<1>3. ASSUME NEW p \in Owners, PaneDies(p) PROVE SureInv'
  <2>1. proc'[p] = Down BY <1>3 DEF PaneDies
  <2>2. SureOK(p)' /\ QueueOK(p)'
    BY <2>1, IdleFacts, SureOut DEF Discovering
  <2>3. ASSUME NEW q \in Owners, q # p PROVE SureOK(q)' /\ QueueOK(q)'
    <3>1. proc[q] \in ProcType /\ QueueOK(q)
      BY DEF OwnerInv, TypeOK, SureInv
    <3>2. /\ proc'[q].sure = FALSE /\ proc'[q].at = proc[q].at
          /\ proc'[q].todo = proc[q].todo
      BY <1>3, <2>3, <3>1 DEF PaneDies, ProcType
    <3>3. reg'[q] = reg[q]
      BY <1>3, <2>3 DEF PaneDies, Ends, OwnerInv, TypeOK
    <3>4. QED BY <3>1, <3>2, <3>3 DEF SureOK, QueueOK
  <2>4. QED BY <2>2, <2>3 DEF SureInv
<1>4. ASSUME NEW a \in Agents, SessionEnds(a) PROVE SureInv'
  <2>1. \A q \in Owners : Left(q)
    BY <1>4, EndSessionFacts DEF SessionEnds, Left, Alive, OwnerInv
  <2>2. QED BY <2>1, LeftSure DEF SureInv
<1>5. CASE \/ \E a \in Agents : Begins(a)
           \/ \E s \in Ids : Foreign(s) \/ ResumedEnds(s)
           \/ UNCHANGED vars
  <2>1. \A q \in Owners : Left(q)
    BY <1>5 DEF Begins, Foreign, ResumedEnds, vars, world, Left, Alive
  <2>2. QED BY <2>1, LeftSure DEF SureInv
<1>6. QED BY <1>1, <1>2, <1>3, <1>4, <1>5

LEMMA InitSure == Init => SureInv
BY IdleFacts DEF Init, SureInv, SureOK, QueueOK, Discovering

LEMMA NextSure == OwnerInv /\ SureInv /\ [Next]_vars => SureInv'
BY ProcessSure, OutsideSure DEF Next

LEMMA SureAlways == Spec => [](OwnerInv /\ BindInv /\ SureInv)
BY InitOwner, NextOwner, InitBind, NextBind, InitSure, NextSure, PTL DEF Spec

-----------------------------------------------------------------------------
(* Theorems: discovery and resumption *)

\* A discovery that nothing disturbed leaves behind no agent that has lost its
\* owner, whatever other processes claimed, resolved and launched meanwhile.
THEOREM NothingLeftBehind == Spec => NothingLeft
<1> DEFINE Leaves == \A p \in Owners : EndDiscovery(p) /\ proc[p].sure =>
         \A a \in Agents :
            LET m == proc[p].snap[a] IN
            Alive(a) /\ m # None /\ (m.owner = p \/ pane[m.owner] = "gone")
              => reg[p][a] # None \/ m.id \in Bound(p) \ {None}
<1>1. OwnerInv /\ BindInv /\ SureInv => Leaves
  BY DEF SureInv, SureOK, Discovering, EndDiscovery, Adoptable, Covered
<1>2. OwnerInv /\ BindInv /\ SureInv /\ [Next]_vars => [Leaves]_vars
  BY <1>1
<1>3. QED BY SureAlways, <1>2, PTL DEF Spec, NothingLeft

\* An agent of the conversation that is to be resumed is in the registry if it can
\* be: then it is a placeholder and makes the resumption ambiguous, or it has the
\* conversation as its key, or another agent has, which no agent can.
LEMMA NoWriterHere ==
    ASSUME OwnerInv, BindInv, SureInv, NEW p \in Owners,
           proc[p].at = "resolve", proc[p].goal # None, proc[p].sure,
           StartsWriter(p), proc[p].goal \notin own[p],
           NEW a \in Codex, ses[a] = "agent", writes[a] = proc[p].goal
    PROVE  ~Covered(p, a, mark[a])
<1> DEFINE s == proc[p].goal
<1>1. /\ a \in Agents /\ AgentOK(a) /\ Alive(a)
      /\ mark[a] \in MarkerType
      /\ \A b \in Agents : reg[p][b] # None =>
           /\ reg[p][b] \in EntryType /\ reg[p][b].mark \in MarkerType
           /\ KeyOK(reg[p][b])
  <2>1. a \in Agents BY ProviderAssumption
  <2>2. AgentOK(a) /\ \A b \in Agents : AgentOK(b) BY <2>1 DEF BindInv
  <2>3. Alive(a) BY DEF Alive
  <2>4. mark[a] # None /\ mark[a] \in MarkerType \cup {None}
    BY <2>1 DEF OwnerInv, TypeOK, MarkOK
  <2>5. \A b \in Agents : reg[p][b] # None => reg[p][b] \in EntryType
    BY DEF OwnerInv, TypeOK
  <2>6. QED BY <2>1, <2>2, <2>3, <2>4, <2>5, EntryFacts DEF AgentOK
<1>2. s \in Ids /\ s \in CodexIds
  BY <1>1, ProviderAssumption DEF AgentOK
<1>3. ~Has(p, s) /\ ~Ambiguous(p, s) BY DEF StartsWriter
<1>4. ASSUME NEW b \in Agents, reg[p][b] # None, reg[p][b].key = s
      PROVE  b = a
  <2>1. reg[p][b].mark.phase = "resolved" /\ reg[p][b].mark.id = s
    BY <1>1, <1>2, <1>4, NoneAssumption DEF KeyOK
  <2>2. BoundTo(b, s) BY <1>1, <1>4, <2>1 DEF BoundTo, Sees
  <2>3. Rightful(b, s) BY <1>2, <2>2 DEF BindInv, AgentOK
  <2>4. QED BY <1>2, <2>3 DEF Rightful
<1>5. reg[p][a] = None
  <2> SUFFICES ASSUME reg[p][a] # None PROVE FALSE
    OBVIOUS
  <2>1. CASE reg[p][a].key = None
    <3>1. a \in Placeholders(p) BY <1>1, <2>1 DEF Placeholders
    <3>2. s \notin reg[p][a].pre
      BY <1>1 DEF AgentOK, Older
    <3>3. QED BY <1>1, <1>2, <1>3, <3>1, <3>2 DEF Ambiguous
  <2>2. CASE reg[p][a].key # None
    <3>1. /\ reg[p][a].mark.phase = "resolved"
          /\ reg[p][a].mark.id = reg[p][a].key
      BY <1>1, <2>2 DEF KeyOK
    <3>2. reg[p][a].key \in Ids BY <1>1, <2>2, EntryFacts
    <3>3. BoundTo(a, reg[p][a].key) BY <1>1, <3>1 DEF BoundTo, Sees
    <3>4. reg[p][a].key = s BY <1>1, <3>2, <3>3 DEF AgentOK
    <3>5. QED BY <1>1, <1>3, <3>4 DEF Has
  <2>3. QED BY <2>1, <2>2
<1>6. mark[a].id \notin Bound(p) \ {None}
  <2> SUFFICES ASSUME mark[a].id \in Bound(p), mark[a].id # None PROVE FALSE
    OBVIOUS
  <2>1. mark[a].id = s
    <3>1. mark[a].phase = "resolved" /\ mark[a].id \in Ids
      BY <1>1, MarkerFacts
    <3>2. BoundTo(a, mark[a].id) BY <1>1, <3>1 DEF BoundTo, Sees
    <3>3. QED BY <1>1, <3>1, <3>2 DEF AgentOK
  <2>2. QED BY <1>4, <1>5, <2>1 DEF Bound
<1>7. QED BY <1>5, <1>6 DEF Covered

\* What a Codex agent writes is resumed by another process only: where the agent
\* belongs to another pane that lives, or where one of the named disturbances came
\* between.
THEOREM WriterFenced == Spec => SecondWriterFenced
<1> DEFINE Fences ==
      \A p \in Owners :
         Decide(p) /\ StartsWriter(p) /\ proc[p].sure /\ proc[p].goal \notin own[p] =>
         \A a \in Codex :
            ses[a] = "agent" /\ writes[a] = proc[p].goal
              => mark[a].owner # p /\ pane[mark[a].owner] = "live"
<1>1. ASSUME OwnerInv, BindInv, SureInv PROVE Fences
  <2> SUFFICES ASSUME NEW p \in Owners, Decide(p), StartsWriter(p), proc[p].sure,
                      proc[p].goal \notin own[p], NEW a \in Codex,
                      ses[a] = "agent", writes[a] = proc[p].goal
               PROVE  mark[a].owner # p /\ pane[mark[a].owner] = "live"
    OBVIOUS
  <2>1. proc[p].at = "resolve" /\ proc[p].goal # None BY DEF Decide
  <2>2. ~Covered(p, a, mark[a]) BY <1>1, <2>1, NoWriterHere
  <2>3. a \in Agents BY ProviderAssumption
  <2>4. ~Adoptable(p, a, mark[a])
    BY <1>1, <2>1, <2>2, <2>3 DEF SureInv, SureOK
  <2>5. /\ Alive(a) /\ mark[a] # None /\ mark[a] \in MarkerType \cup {None}
        /\ pane[mark[a].owner] # "new"
    BY <1>1, <2>3 DEF OwnerInv, TypeOK, MarkOK, Alive
  <2>6. pane[mark[a].owner] \in {"new", "live", "gone"}
    BY <1>1, <2>5, MarkerFacts DEF OwnerInv, TypeOK
  <2>7. QED BY <2>4, <2>5, <2>6 DEF Adoptable
<1>2. OwnerInv /\ BindInv /\ SureInv /\ [Next]_vars => [Fences]_vars
  BY <1>1
<1>3. QED BY SureAlways, <1>2, PTL DEF Spec, SecondWriterFenced

=============================================================================
